---- MODULE Spec2Model ----
(***************************************************************************)
(* Model of the DocuDevs Azure function: the ConfigurationStore            *)
(* (configuration.py), the AzureBlobStorage adapter (azure_storage.py)     *)
(* and the DocumentProcessor (processor.py).                               *)
(*                                                                         *)
(* Paths are sequences of path components: PurePosixPath("a/b") is         *)
(* <<"a","b">> and the root PurePosixPath("") is <<>>.  Strings that name  *)
(* paths or blobs are sequences of components too ("a/b" is <<"a","b">>),  *)
(* so str(PurePosixPath("")) = "." is <<".">>.                             *)
(***************************************************************************)
EXTENDS Integers, Sequences, FiniteSets, TLC

VARIABLES
    objects,    \* input container: blob name -> StorageObject
    cache,      \* ConfigurationStore._cache: str(folder) -> FolderConfiguration
    nextTag,    \* the version tag the storage service gives to its next change
    ret,        \* the last ConfigurationStore call and what it returned
    containers, \* the containers that exist in the storage account
    out,        \* output container: blob name -> StorageObject
    inv,        \* the process_blob invocations: id -> frame of the coroutine
    instances,  \* function instances handling a configuration event, each
                \* with the cache of its own store
    events      \* Event Grid: the deliveries of blob events not yet handled

vars == <<objects, cache, nextTag, ret, containers, out, inv, instances, events>>

(***************************************************************************)
(* Bounds of the model.                                                    *)
(***************************************************************************)
MaxDepth == 2       \* deepest folder a call names
MaxChanges == 1     \* uploads and deletes in the input container after the start
MaxInv == 1         \* process_blob invocations in flight
MaxWrites == 1      \* consolidated writes by the store after the users' changes

(***************************************************************************)
(* JSON values.  An opaque JSON object is JObj(id); a JSON object with     *)
(* some of the keys params/schema/metadata/source is a JDoc, a key that is *)
(* missing holding Absent.                                                 *)
(***************************************************************************)
JNull == [kind |-> "null"]
Absent == [kind |-> "absent"]
JObj(id) == [kind |-> "object", id |-> id]
JList(id) == [kind |-> "list", id |-> id]
JDoc(p, s, m, src) ==
    [kind |-> "doc", params |-> p, schema |-> s, metadata |-> m, source |-> src]

\* json.dumps(...).encode("utf-8") and bytes that are no JSON text
Dumps(v) == [enc |-> "json", v |-> v]
Raw(id) == [enc |-> "raw", v |-> [kind |-> "raw", id |-> id]]

\* dict.get(key): None for a missing key; only dicts have .get
HasGet(payload) == payload.kind \in {"object", "doc"}
Get(payload, key) ==
    IF payload.kind = "doc" /\ payload[key] # Absent THEN payload[key] ELSE JNull

EmptyTag == 0
UuidTag == -1
EmptyMap == [x \in {} |-> EmptyTag]

StorageObject(data, content_type, etag) ==
    [data |-> data, content_type |-> content_type, etag |-> etag]

FolderConfiguration(params, source_folder, schema, metadata, etags) ==
    [params |-> params, source_folder |-> source_folder, schema |-> schema,
     metadata |-> metadata, etags |-> etags]

NoConfig == FolderConfiguration(JNull, <<>>, JNull, JNull, EmptyMap)

(***************************************************************************)
(* Paths.                                                                  *)
(***************************************************************************)
DefaultFolder == <<"__default__">>
Components == {"a", "__default__"}
\* the folders calls name: a top folder and below it folders named "a"
Folders ==
    {p \in UNION {[1..k -> Components] : k \in 0..MaxDepth} :
        \A i \in 2..Len(p) : p[i] = "a"}
\* what a caller passes: a PurePosixPath, or the strings "." and ""
RawFolders == Folders \cup {<<".">>, <<"">>}

\* PurePosixPath(s): "." and empty components vanish
RECURSIVE PosixPath(_)
PosixPath(s) ==
    IF s = <<>> THEN <<>>
    ELSE IF Head(s) \in {".", ""} THEN PosixPath(Tail(s))
    ELSE <<Head(s)>> \o PosixPath(Tail(s))

\* str(path)
Str(path) == IF path = <<>> THEN <<".">> ELSE path

\* path.parent
Parent(path) == IF path = <<>> THEN <<>> ELSE SubSeq(path, 1, Len(path) - 1)

NormalizeFolder(folder) ==
    LET path == PosixPath(folder)
    IN  IF Str(path) \in {<<"">>, <<".">>} THEN PosixPath(<<"">>) ELSE path

Join(folder, file_name) ==
    IF Str(folder) \in {<<"">>, <<".">>} THEN <<file_name>>
    ELSE folder \o <<file_name>>

(***************************************************************************)
(* ConfigurationStore                                                      *)
(***************************************************************************)
HasObject(objs, name) == name \in DOMAIN objs

\* a variant of _read_json that returns no payload
ReadJsonEmpty(objs, folder, file_name) ==
    IF ~HasObject(objs, Join(folder, file_name))
    THEN [status |-> "none", payload |-> JNull, etag |-> EmptyTag]
    ELSE [status |-> "ok", payload |-> JNull,
          etag |-> objs[Join(folder, file_name)].etag]

\* _read_json: "none", or "ok" with (payload, etag), or json.loads raising
ReadJson(objs, folder, file_name) ==
    LET blob_name == Join(folder, file_name)
    IN  IF ~HasObject(objs, blob_name)
        THEN [status |-> "none", payload |-> JNull, etag |-> EmptyTag]
        ELSE IF objs[blob_name].data.enc # "json"
        THEN [status |-> "JSONDecodeError", payload |-> JNull, etag |-> EmptyTag]
        ELSE [status |-> "ok", payload |-> objs[blob_name].data.v,
              etag |-> objs[blob_name].etag]

BuildResult(status, config, cch, hit) ==
    [status |-> status, config |-> config, cache |-> cch, hit |-> hit, attempts |-> 1]

\* a build that drops the cache when it raises
BuildRaiseClearing(status, cch) ==
    BuildResult(status, NoConfig, [k \in {} |-> NoConfig], FALSE)

BuildRaise(status, cch) == BuildResult(status, NoConfig, cch, FALSE)
\* a variant of the consolidated branch that drops the schema
BuildConsolidatedNoSchema(cch, folder_path, consolidated) ==
    LET payload == consolidated.payload
        config == FolderConfiguration(Get(payload, "params"), folder_path, JNull,
                      Get(payload, "metadata"),
                      [f \in {"config.json"} |-> consolidated.etag])
    IN  IF ~HasGet(payload) THEN BuildRaise("AttributeError", cch)
        ELSE IF Get(payload, "params") = JNull THEN BuildRaise("ValueError", cch)
        ELSE BuildResult("ok", config, (Str(folder_path) :> config) @@ cch, FALSE)

\* the consolidated branch of build (config.json was read)
BuildConsolidated(cch, folder_path, consolidated) ==
    LET payload == consolidated.payload
        params == Get(payload, "params")
        config == FolderConfiguration(params, folder_path, Get(payload, "schema"),
                      Get(payload, "metadata"),
                      [f \in {"config.json"} |-> consolidated.etag])
    IN  IF ~HasGet(payload) THEN BuildRaise("AttributeError", cch)
        ELSE IF params = JNull THEN BuildRaise("ValueError", cch)
        ELSE BuildResult("ok", config, (Str(folder_path) :> config) @@ cch, FALSE)
\* a variant of the three-file branch that reads params.json only
BuildParamsOnly(objs, cch, folder_path) ==
    LET params == ReadJson(objs, folder_path, "params.json")
        config == FolderConfiguration(params.payload, folder_path, JNull, JNull,
                      [f \in {"params.json"} |-> params.etag])
    IN  IF params.status = "none" THEN BuildRaise("FileNotFoundError", cch)
        ELSE IF params.status # "ok" THEN BuildRaise(params.status, cch)
        ELSE BuildResult("ok", config, (Str(folder_path) :> config) @@ cch, FALSE)

\* the three-file branch of build
BuildThreeFiles(objs, cch, folder_path) ==
    LET params == ReadJson(objs, folder_path, "params.json")
        schema == ReadJson(objs, folder_path, "schema.json")
        metadata == ReadJson(objs, folder_path, "metadata.json")
        present == {"params.json"}
                     \cup (IF schema.status = "ok" THEN {"schema.json"} ELSE {})
                     \cup (IF metadata.status = "ok" THEN {"metadata.json"} ELSE {})
        etags == [f \in present |->
                     IF f = "params.json" THEN params.etag
                     ELSE IF f = "schema.json" THEN schema.etag ELSE metadata.etag]
        config == FolderConfiguration(params.payload, folder_path,
                      IF schema.status = "ok" THEN schema.payload ELSE JNull,
                      IF metadata.status = "ok" THEN metadata.payload ELSE JNull,
                      etags)
    IN  IF params.status = "none" THEN BuildRaise("FileNotFoundError", cch)
        ELSE IF params.status # "ok" THEN BuildRaise(params.status, cch)
        ELSE IF schema.status \notin {"ok", "none"} THEN BuildRaise(schema.status, cch)
        ELSE IF metadata.status \notin {"ok", "none"} THEN BuildRaise(metadata.status, cch)
        ELSE BuildResult("ok", config, (Str(folder_path) :> config) @@ cch, FALSE)
\* a variant of build that falls back to the default folder
BuildOrDefault(objs, cch, folder) ==
    LET folder_path == NormalizeFolder(folder)
        consolidated == ReadJson(objs, folder_path, "config.json")
        own == BuildThreeFiles(objs, cch, folder_path)
    IN  IF Str(folder_path) \in DOMAIN cch
        THEN BuildResult("ok", cch[Str(folder_path)], cch, TRUE)
        ELSE IF consolidated.status = "ok"
        THEN BuildConsolidated(cch, folder_path, consolidated)
        ELSE IF own.status = "FileNotFoundError"
        THEN BuildThreeFiles(objs, cch, DefaultFolder)
        ELSE own

\* a variant of build that remembers under the key that it found nothing
BuildRemembering(objs, cch, folder) ==
    LET folder_path == NormalizeFolder(folder)
        key == Str(folder_path)
        consolidated == ReadJson(objs, folder_path, "config.json")
        own == BuildThreeFiles(objs, cch, folder_path)
    IN  IF key \in DOMAIN cch THEN BuildResult("ok", cch[key], cch, TRUE)
        ELSE IF consolidated.status = "JSONDecodeError"
        THEN BuildRaise("JSONDecodeError", cch)
        ELSE IF consolidated.status = "ok"
        THEN BuildConsolidated(cch, folder_path, consolidated)
        ELSE IF own.status = "FileNotFoundError"
        THEN [own EXCEPT !.cache = (key :> NoConfig) @@ cch]
        ELSE own

\* build(folder): the result, and the cache after the call
Build(objs, cch, folder) ==
    LET folder_path == NormalizeFolder(folder)
        key == Str(folder_path)
        consolidated == ReadJson(objs, folder_path, "config.json")
    IN  IF key \in DOMAIN cch THEN BuildResult("ok", cch[key], cch, TRUE)
        ELSE IF consolidated.status = "JSONDecodeError"
        THEN BuildRaise("JSONDecodeError", cch)
        ELSE IF consolidated.status = "ok"
        THEN BuildConsolidated(cch, folder_path, consolidated)
        ELSE BuildThreeFiles(objs, cch, folder_path)

\* the loop of _candidate_folders
RECURSIVE Ascend(_, _)
Ascend(current, seen) ==
    LET key == Str(current)
        yielded == IF key \notin seen THEN <<current>> ELSE <<>>
    IN  IF current = Parent(current) THEN yielded
        ELSE IF key = <<"">> \/ key = <<".">> THEN yielded
        ELSE yielded \o Ascend(Parent(current), seen \cup {key})
\* a variant of _candidate_folders without the default folder
CandidateFoldersNoDefault(folder) == Ascend(folder, {})

\* a variant of _candidate_folders that yields the default folder once
CandidateFoldersOnce(folder) ==
    LET ascent == Ascend(folder, {})
    IN  IF \E k \in DOMAIN ascent : ascent[k] = DefaultFolder
        THEN ascent ELSE ascent \o <<DefaultFolder>>


CandidateFolders(folder) == Ascend(folder, {}) \o <<DefaultFolder>>

\* a variant of the loop that also passes over a candidate whose
\* config.json lacks params
RECURSIVE ResolveLoopLenient(_, _, _, _)
ResolveLoopLenient(objs, cch, candidates, n) ==
    IF candidates = <<>>
    THEN [BuildRaise("FileNotFoundError", cch) EXCEPT !.attempts = n]
    ELSE LET r == Build(objs, cch, Head(candidates))
         IN  IF r.status \in {"FileNotFoundError", "ValueError"}
             THEN ResolveLoopLenient(objs, r.cache, Tail(candidates), n + 1)
             ELSE [r EXCEPT !.attempts = n + 1]

\* the loop of resolve over the candidates left, n builds done so far
RECURSIVE ResolveLoop(_, _, _, _)
ResolveLoop(objs, cch, candidates, n) ==
    IF candidates = <<>>
    THEN [BuildRaise("FileNotFoundError", cch) EXCEPT !.attempts = n]
    ELSE LET r == Build(objs, cch, Head(candidates))
         IN  IF r.status = "FileNotFoundError"
             THEN ResolveLoop(objs, r.cache, Tail(candidates), n + 1)
             ELSE [r EXCEPT !.attempts = n + 1]

\* a variant of resolve that also caches what it found under the folder
\* it was asked for
ResolveCachingRequested(objs, cch, folder) ==
    LET r == ResolveLoop(objs, cch, CandidateFolders(NormalizeFolder(folder)), 0)
    IN  IF r.status = "ok"
        THEN [r EXCEPT !.cache = (Str(NormalizeFolder(folder)) :> r.config) @@ r.cache]
        ELSE r

Resolve(objs, cch, folder) ==
    ResolveLoop(objs, cch, CandidateFolders(NormalizeFolder(folder)), 0)

\* a variant of invalidate that clears the whole cache
InvalidateAll(cch, folder) == [k \in {} |-> NoConfig]

\* invalidate(folder): the cache after the call
Invalidate(cch, folder) ==
    LET key == Str(NormalizeFolder(folder))
    IN  [k \in DOMAIN cch \ {key} |-> cch[k]]

(***************************************************************************)
(* AzureBlobStorage                                                        *)
(***************************************************************************)
\* blob_client.upload_blob(data, overwrite=True, if_match=...): one attempt
UploadBlob(cs, objs, container, name, if_match, fault) ==
    IF fault THEN "HttpResponseError"
    ELSE IF container \notin cs THEN "ResourceNotFoundError"
    ELSE IF if_match # EmptyTag
            /\ (name \notin DOMAIN objs \/ objs[name].etag # if_match)
    THEN "ResourceModifiedError"
    ELSE "ok"

PutResult(status, objs, cs, attempts, written) ==
    [status |-> status, objects |-> objs, containers |-> cs, attempts |-> attempts,
     written |-> written]

\* put_object without the except clauses: the first failure goes to the caller
PutObjectOnce(cs, objs, container, name, data, content_type, etag, tag, fault) ==
    LET first == UploadBlob(cs, objs, container, name, etag, fault[1])
    IN  IF first = "ok"
        THEN PutResult("ok", (name :> StorageObject(data, content_type, tag)) @@ objs, cs, 1,
                       <<[name |-> name, data |-> data, content_type |-> content_type]>>)
        ELSE PutResult(first, objs, cs, 1, <<>>)

\* put_object on the container whose blobs are objs; tag is the version tag
\* the service gives the blob; fault[1], fault[2] make the first upload and
\* the retry raise another error, fault[3] makes create_container raise;
\* written lists the blob an upload stored
PutObject(cs, objs, container, name, data, content_type, etag, tag, fault) ==
    LET blob == StorageObject(data, content_type, tag)
        stored == (name :> blob) @@ objs
        written == <<[name |-> name, data |-> data, content_type |-> content_type]>>
        first == UploadBlob(cs, objs, container, name, etag, fault[1])
        created == cs \cup {container}
        Retry(cs2) ==
            LET second == UploadBlob(cs2, objs, container, name, EmptyTag, fault[2])
            IN  IF second = "ok" THEN PutResult("ok", stored, cs2, 2, written)
                ELSE PutResult(second, objs, cs2, 2, <<>>)
    IN  IF first = "ok" THEN PutResult("ok", stored, cs, 1, written)
        ELSE IF first = "ResourceModifiedError" THEN Retry(cs)
        ELSE IF first = "ResourceNotFoundError"
        THEN IF fault[3] THEN PutResult("HttpResponseError", objs, cs, 1, <<>>)
             ELSE Retry(created)
        ELSE PutResult(first, objs, cs, 1, <<>>)

\* a put ends at the first call that raises, so one fault a put is enough
NoFault == [i \in 1..3 |-> FALSE]
Faults == {NoFault} \cup {[NoFault EXCEPT ![k] = TRUE] : k \in 1..3}

(***************************************************************************)
(* ConfigurationStore.write_consolidated_config                            *)
(***************************************************************************)
InputContainer == "in"
OutputContainer == "out"

ConsolidatedPayload(config) ==
    JDoc(config.params, config.schema, config.metadata, Str(config.source_folder))

\* write_consolidated_config passing no precondition at all
ConsolidatedEtagNone(config) == EmptyTag

\* config.etags.get("config.json", config.etags.get("params.json", ""))
ConsolidatedEtag(config) ==
    IF "config.json" \in DOMAIN config.etags THEN config.etags["config.json"]
    ELSE IF "params.json" \in DOMAIN config.etags THEN config.etags["params.json"]
    ELSE EmptyTag

ConsolidatedTarget(config) ==
    LET folder_key == Str(config.source_folder)
    IN  IF folder_key # <<"">> THEN folder_key \o <<"config.json">>
        ELSE <<"config.json">>

\* the put of write_consolidated_config, and the cache after the call
WriteConsolidatedConfig(cs, objs, cch, config, tag, fault) ==
    LET put == PutObject(cs, objs, InputContainer, ConsolidatedTarget(config),
                   Dumps(ConsolidatedPayload(config)), "application/json",
                   ConsolidatedEtag(config), tag, fault)
    IN  [status |-> put.status, objects |-> put.objects,
         containers |-> put.containers, attempts |-> put.attempts,
         cache |-> IF put.status = "ok"
                   THEN (Str(config.source_folder) :> config) @@ cch
                   ELSE cch]

(***************************************************************************)
(* function_app: handle_config_update                                      *)
(***************************************************************************)
\* a variant of CONFIG_FILES that holds config.json too
ConfigFilesWithConsolidated ==
    {"params.json", "schema.json", "metadata.json", "config.json"}

ConfigFiles == {"params.json", "schema.json", "metadata.json"}

\* _delete_consolidated_config deleting the changed file's sibling params.json
DeleteSiblingParams(objs, folder, fault) ==
    LET blob_name == folder \o <<"params.json">>
    IN  IF fault \/ blob_name \notin DOMAIN objs THEN objs
        ELSE [n \in DOMAIN objs \ {blob_name} |-> objs[n]]

\* _delete_consolidated_config: the blobs after the best-effort delete;
\* fault makes delete_blob raise
DeleteConsolidatedConfig(objs, folder, fault) ==
    LET blob_name == IF Str(folder) \notin {<<"">>, <<".">>}
                     THEN folder \o <<"config.json">> ELSE <<"config.json">>
    IN  IF fault \/ blob_name \notin DOMAIN objs THEN objs
        ELSE [n \in DOMAIN objs \ {blob_name} |-> objs[n]]

BlobCreated == "Microsoft.Storage.BlobCreated"
BlobDeleted == "Microsoft.Storage.BlobDeleted"
EventTypes == {BlobCreated, BlobDeleted}

HandlerResult(status, objs, cs, cch, config, attempts) ==
    [status |-> status, objects |-> objs, containers |-> cs, cache |-> cch,
     config |-> config, attempts |-> attempts]

\* handle_config_update for an event on blob blob_name of container: how the
\* handler ends ("ignored", "deleted", "missing", "rebuilt" or the exception
\* it raises), and the blobs, containers and cache it leaves
HandleConfigUpdate(cs, objs, cch, container, blob_name, event_type, tag, fault) ==
    LET file_name == blob_name[Len(blob_name)]
        folder == Parent(blob_name)
        invalidated == Invalidate(cch, folder)
        built == Build(objs, invalidated, folder)
        w == WriteConsolidatedConfig(cs, objs, built.cache, built.config, tag, fault)
    IN  IF container # InputContainer \/ file_name \notin ConfigFiles
        THEN HandlerResult("ignored", objs, cs, cch, NoConfig, 0)
        ELSE IF event_type = BlobDeleted
        THEN HandlerResult("deleted", DeleteConsolidatedConfig(objs, folder, fault[1]),
                 cs, invalidated, NoConfig, 0)
        ELSE IF built.status = "FileNotFoundError"
        THEN HandlerResult("missing", objs, cs, built.cache, NoConfig, 0)
        ELSE IF built.status # "ok"
        THEN HandlerResult(built.status, objs, cs, built.cache, NoConfig, 0)
        ELSE HandlerResult(IF w.status = "ok" THEN "rebuilt" ELSE w.status,
                 w.objects, w.containers, w.cache, built.config, w.attempts)

(***************************************************************************)
(* The store under calls of its methods, and the input container under     *)
(* uploads and deletes by its users.                                       *)
(***************************************************************************)
StoreFolders == {<<>>, <<"a">>, DefaultFolder}

\* the content a user uploads as version tag of the file file_name
Content(file_name, tag) == Dumps(JObj(<<file_name, tag>>))

\* what a user may upload as config.json: a consolidated document with
\* params and schema, a document without params, the JSON text null
ConsolidatedUploads(folder, tag) ==
    { Dumps(JDoc(JObj(<<"config.params", tag>>), JObj(<<"config.schema", tag>>),
                 Absent, Str(folder))),
      Dumps(JDoc(Absent, JObj(<<"config.schema", tag>>), Absent, Str(folder))),
      Dumps(JNull) }

JsonObject(data, tag) == StorageObject(data, "application/json", tag)

\* the blobs of the input container when the function app starts
InitBlobs ==
    (<<"a", "params.json">> :> JsonObject(Content("params.json", 1), 1))
    @@ (<<"a", "schema.json">> :> JsonObject(Content("schema.json", 2), 2))
    @@ (<<"__default__", "params.json">> :> JsonObject(Content("params.json", 3), 3))
    @@ (<<"a", "config.json">> :>
          JsonObject(Dumps(JDoc(JObj(<<"params.json", 1>>), JObj(<<"schema.json", 2>>),
                                JNull, <<"a">>)), 4))

FirstTag == Cardinality(DOMAIN InitBlobs) + 1

Restrict(f, S) == [x \in S |-> f[x]]

EmptyCache == [k \in {} |-> NoConfig]

NoRet ==
    [op |-> "none", folder |-> <<>>, status |-> "none", config |-> NoConfig,
     hit |-> FALSE, attempts |-> 0]

CallRet(op, folder, r) ==
    [op |-> op, folder |-> folder, status |-> r.status, config |-> r.config,
     hit |-> r.hit, attempts |-> r.attempts]

NoException == [type |-> "none", text |-> [kind |-> "none"]]

\* the frame of a process_blob coroutine: where it is suspended, its local
\* variables, the calls it made to the DocuDevs client, the blobs it wrote
\* to the output container and how it ended
Idle ==
    [pc |-> "idle", blob_name |-> <<>>, config |-> NoConfig, mime_type |-> "",
     guid |-> "", calls |-> <<>>, writes |-> <<>>, outcome |-> "none",
     exc |-> NoException]

NoBlobs == [n \in {} |-> JsonObject(Dumps(JNull), EmptyTag)]

\* the function instances that handle configuration events of their own
Instances == {"first", "second"}

\* an instance before its delivery: where its handler stands, the
\* configuration it built, how its write ended, the uploads it made, the
\* cache of its store
IdleInstance ==
    [pc |-> "idle", config |-> NoConfig, status |-> "none", attempts |-> 0,
     cache |-> EmptyCache]

\* only the function instance of cache and inv runs
NoInstances == [w \in {} |-> IdleInstance]

\* no delivery is pending
NoEvents == {}

procVars == <<out, inv, instances, events>>

InitStore ==
    /\ objects \in {Restrict(InitBlobs, S) : S \in SUBSET DOMAIN InitBlobs}
    /\ cache = EmptyCache
    /\ nextTag = FirstTag
    /\ ret = NoRet
    /\ containers = {InputContainer}

Init ==
    /\ InitStore
    /\ out = NoBlobs
    /\ inv = [i \in 1..MaxInv |-> Idle]
    /\ instances = NoInstances
    /\ events = NoEvents

\* a user uploads one of the three configuration files
EnvPut(folder, file_name) ==
    /\ ret = NoRet
    /\ nextTag < FirstTag + MaxChanges
    /\ objects' = (Join(folder, file_name)
                     :> JsonObject(Content(file_name, nextTag), nextTag)) @@ objects
    /\ nextTag' = nextTag + 1
    /\ ret' = NoRet
    /\ UNCHANGED <<cache, containers, procVars>>

\* a user uploads a config.json
EnvPutConsolidated(folder) ==
    /\ ret = NoRet
    /\ nextTag < FirstTag + MaxChanges
    /\ \E data \in ConsolidatedUploads(folder, nextTag) :
          objects' = (Join(folder, "config.json") :> JsonObject(data, nextTag))
                        @@ objects
    /\ nextTag' = nextTag + 1
    /\ ret' = NoRet
    /\ UNCHANGED <<cache, containers, procVars>>

\* a user deletes a blob
EnvDelete(name) ==
    /\ ret = NoRet
    /\ name \in DOMAIN objects
    /\ nextTag < FirstTag + MaxChanges
    /\ objects' = Restrict(objects, DOMAIN objects \ {name})
    /\ nextTag' = nextTag + 1
    /\ ret' = NoRet
    /\ UNCHANGED <<cache, containers, procVars>>

DoBuild(folder) ==
    LET r == Build(objects, cache, folder)
    IN  /\ ret = NoRet
        /\ cache' = r.cache
        /\ ret' = CallRet("build", folder, r)
        /\ UNCHANGED <<objects, nextTag, containers, procVars>>

DoResolve(folder) ==
    LET r == Resolve(objects, cache, folder)
    IN  /\ ret = NoRet
        /\ cache' = r.cache
        /\ ret' = CallRet("resolve", folder, r)
        /\ UNCHANGED <<objects, nextTag, containers, procVars>>

DoInvalidate(folder) ==
    /\ ret = NoRet
    /\ cache' = Invalidate(cache, folder)
    /\ ret' = [NoRet EXCEPT !.op = "invalidate", !.folder = folder]
    /\ UNCHANGED <<objects, nextTag, containers, procVars>>

\* write_consolidated_config(config) with a configuration the caller holds:
\* the one the last build or resolve returned
DoWriteConsolidated(fault) ==
    /\ ret.op \in {"build", "resolve"}
    /\ ret.status = "ok"
    /\ nextTag < FirstTag + MaxChanges
    /\ LET w == WriteConsolidatedConfig(containers, objects, cache, ret.config,
                    nextTag, fault)
       IN  /\ objects' = w.objects
           /\ containers' = w.containers
           /\ cache' = w.cache
           /\ nextTag' = IF w.status = "ok" THEN nextTag + 1 ELSE nextTag
           /\ ret' = [NoRet EXCEPT !.op = "write", !.folder = ret.config.source_folder,
                                   !.status = w.status, !.config = ret.config,
                                   !.attempts = w.attempts]
    /\ UNCHANGED procVars

\* the folders whose files change while the handler runs: the root, which
\* the store's key rules single out, and a named folder
EventFolders == {<<>>, <<"a">>}

\* the blobs a configuration event may name
EventBlobs ==
    {Join(folder, file_name) :
        folder \in EventFolders, file_name \in ConfigFiles \cup {"config.json"}}

\* the put of an event's handler may fail; its delete may fail
EventFaults(event_type) ==
    IF event_type = BlobDeleted THEN {NoFault, [NoFault EXCEPT ![1] = TRUE]}
    ELSE Faults

\* Event Grid delivers a blob event to handle_config_update
ConfigUpdateEvent(container, blob_name, event_type, fault) ==
    /\ ret = NoRet
    /\ nextTag < FirstTag + MaxChanges + MaxWrites
    /\ \E h \in {HandleConfigUpdate(containers, objects, cache, container, blob_name,
                     event_type, nextTag, fault)} :
          /\ objects' = h.objects
          /\ containers' = h.containers
          /\ cache' = h.cache
          /\ nextTag' = IF h.status = "rebuilt" THEN nextTag + 1 ELSE nextTag
          /\ ret' = [NoRet EXCEPT !.op = "handle_config_update",
                                  !.folder = Parent(blob_name), !.status = h.status,
                                  !.config = h.config, !.attempts = h.attempts]
    /\ UNCHANGED procVars

\* the caller is done with what the last call returned
Return ==
    /\ ret # NoRet
    /\ ret' = NoRet
    /\ UNCHANGED <<objects, cache, nextTag, containers, procVars>>

NextStore ==
    \/ \E folder \in StoreFolders, file_name \in ConfigFiles : EnvPut(folder, file_name)
    \/ \E folder \in StoreFolders : EnvPutConsolidated(folder)
    \/ \E name \in DOMAIN objects : EnvDelete(name)
    \/ \E folder \in RawFolders : DoBuild(folder)
    \/ \E folder \in RawFolders : DoResolve(folder)
    \/ \E folder \in RawFolders : DoInvalidate(folder)
    \/ \E fault \in Faults : DoWriteConsolidated(fault)
    \/ Return

Spec == Init /\ [][NextStore]_vars

\* the function app under configuration events, and the input container
\* under uploads and deletes by its users
NextEvents ==
    \/ \E folder \in EventFolders, file_name \in ConfigFiles : EnvPut(folder, file_name)
    \/ \E name \in DOMAIN objects : EnvDelete(name)
    \/ \E blob_name \in EventBlobs, event_type \in EventTypes :
          \E fault \in EventFaults(event_type) :
              ConfigUpdateEvent(InputContainer, blob_name, event_type, fault)
    \/ \E blob_name \in EventBlobs :
          ConfigUpdateEvent(OutputContainer, blob_name, BlobCreated, NoFault)
    \/ Return

SpecEvents == Init /\ [][NextEvents]_vars

(***************************************************************************)
(* The store of a container whose configuration sits at the root: the      *)
(* container starts with a params.json at its root, and the store is       *)
(* called with the spellings of the root folder.                           *)
(***************************************************************************)
RootBlobs == (<<"params.json">> :> JsonObject(Content("params.json", 1), 1))

RootFolders == {<<>>, <<".">>, <<"">>}

InitRoot ==
    /\ objects = RootBlobs
    /\ cache = EmptyCache
    /\ nextTag = Cardinality(DOMAIN RootBlobs) + 1
    /\ ret = NoRet
    /\ containers = {InputContainer}
    /\ out = NoBlobs
    /\ inv = [i \in 1..MaxInv |-> Idle]
    /\ instances = NoInstances
    /\ events = NoEvents

\* the container is deleted, and its blobs with it
EnvDeleteContainer ==
    /\ ret = NoRet
    /\ InputContainer \in containers
    /\ containers' = containers \ {InputContainer}
    /\ objects' = Restrict(objects, {})
    /\ UNCHANGED <<cache, nextTag, ret, procVars>>

NextRoot ==
    \/ \E file_name \in ConfigFiles : EnvPut(<<>>, file_name)
    \/ \E name \in DOMAIN objects : EnvDelete(name)
    \/ EnvDeleteContainer
    \/ \E folder \in RootFolders : DoBuild(folder)
    \/ \E folder \in RootFolders : DoInvalidate(folder)
    \/ \E fault \in Faults : DoWriteConsolidated(fault)
    \/ Return

SpecRoot == InitRoot /\ [][NextRoot]_vars

(***************************************************************************)
(* Two function instances, each with a store of its own, handle a          *)
(* configuration event for folder a at the same time: each invalidates and *)
(* builds in one stretch, and the requests of their put_object calls       *)
(* reach the storage service in any order.                                 *)
(***************************************************************************)
EventFolder == <<"a">>

\* the configuration files of folder a when the events are delivered
TwoConfigs ==
    { Restrict(InitBlobs, {<<"a", "params.json">>}),
      Restrict(InitBlobs, {<<"a", "params.json">>, <<"a", "schema.json">>}),
      Restrict(InitBlobs, {<<"a", "params.json">>, <<"a", "config.json">>}) }

InitTwo ==
    /\ objects \in TwoConfigs
    /\ cache = EmptyCache
    /\ nextTag = FirstTag
    /\ ret = NoRet
    /\ containers = {InputContainer}
    /\ out = NoBlobs
    /\ inv = [i \in 1..MaxInv |-> Idle]
    /\ instances = [w \in Instances |-> IdleInstance]
    /\ events = NoEvents

\* put_object: the first upload_blob, with if_match when the configuration
\* has a version tag
FirstAttempt(cs, objs, config) ==
    UploadBlob(cs, objs, InputContainer, ConsolidatedTarget(config),
        ConsolidatedEtag(config), FALSE)

\* a variant of the retry that passes the version tag again
SecondAttemptConditional(cs, objs, config) ==
    UploadBlob(cs, objs, InputContainer, ConsolidatedTarget(config),
        ConsolidatedEtag(config), FALSE)

\* put_object: the upload_blob of the except ResourceModifiedError clause
SecondAttempt(cs, objs, config) ==
    UploadBlob(cs, objs, InputContainer, ConsolidatedTarget(config), EmptyTag, FALSE)

\* the blobs once the service stored the consolidated document of config
Stored(objs, config, tag) ==
    (ConsolidatedTarget(config)
        :> JsonObject(Dumps(ConsolidatedPayload(config)), tag)) @@ objs

\* write_consolidated_config after its put_object returned
Wrote(instance, attempts) ==
    [instance EXCEPT !.pc = "done", !.status = "ok", !.attempts = attempts,
        !.cache = (Str(instance.config.source_folder) :> instance.config) @@ @]

\* handle_config_update of instance w up to the first request of put_object:
\* invalidate and build
Deliver(w) ==
    /\ instances[w].pc = "idle"
    /\ \E r \in {Build(objects, Invalidate(instances[w].cache, EventFolder),
                     EventFolder)} :
          instances' = [instances EXCEPT ![w] =
              IF r.status = "ok"
              THEN [@ EXCEPT !.pc = "upload", !.config = r.config, !.cache = r.cache]
              ELSE [@ EXCEPT !.pc = "done", !.status = r.status, !.cache = r.cache]]
    /\ UNCHANGED <<objects, cache, nextTag, ret, containers, out, inv, events>>

\* the first upload_blob of instance w reaches the service
FirstUpload(w) ==
    /\ instances[w].pc = "upload"
    /\ \E first \in {FirstAttempt(containers, objects, instances[w].config)} :
          IF first = "ok"
          THEN /\ objects' = Stored(objects, instances[w].config, nextTag)
               /\ nextTag' = nextTag + 1
               /\ instances' = [instances EXCEPT ![w] = Wrote(@, 1)]
          ELSE /\ instances' = [instances EXCEPT ![w] =
                      IF first = "ResourceModifiedError"
                      THEN [@ EXCEPT !.pc = "retry", !.attempts = 1]
                      ELSE [@ EXCEPT !.pc = "done", !.status = first, !.attempts = 1]]
               /\ UNCHANGED <<objects, nextTag>>
    /\ UNCHANGED <<cache, ret, containers, out, inv, events>>

\* the upload_blob of the except clause of instance w reaches the service
RetryUpload(w) ==
    /\ instances[w].pc = "retry"
    /\ \E second \in {SecondAttempt(containers, objects, instances[w].config)} :
          IF second = "ok"
          THEN /\ objects' = Stored(objects, instances[w].config, nextTag)
               /\ nextTag' = nextTag + 1
               /\ instances' = [instances EXCEPT ![w] = Wrote(@, 2)]
          ELSE /\ instances' = [instances EXCEPT ![w] =
                      [@ EXCEPT !.pc = "done", !.status = second, !.attempts = 2]]
               /\ UNCHANGED <<objects, nextTag>>
    /\ UNCHANGED <<cache, ret, containers, out, inv, events>>

NextTwo ==
    \/ \E file_name \in ConfigFiles : EnvPut(EventFolder, file_name)
    \/ \E w \in Instances : Deliver(w)
    \/ \E w \in Instances : FirstUpload(w)
    \/ \E w \in Instances : RetryUpload(w)

SpecTwo == InitTwo /\ [][NextTwo]_vars

(***************************************************************************)
(* A caller that looks one folder up again and again, holding what the     *)
(* last call returned, while users upload configuration files.             *)
(***************************************************************************)
\* a user uploads one of the three configuration files while the caller
\* holds the result of a build or resolve
PutWhileHeld(folder, file_name) ==
    /\ ret.op \in {"build", "resolve"}
    /\ nextTag < FirstTag + MaxChanges
    /\ objects' = (Join(folder, file_name)
                     :> JsonObject(Content(file_name, nextTag), nextTag)) @@ objects
    /\ nextTag' = nextTag + 1
    /\ UNCHANGED <<cache, ret, containers, procVars>>

\* a user uploads a config.json while the caller holds such a result
PutConsolidatedWhileHeld(folder) ==
    /\ ret.op \in {"build", "resolve"}
    /\ nextTag < FirstTag + MaxChanges
    /\ \E data \in ConsolidatedUploads(folder, nextTag) :
          objects' = (Join(folder, "config.json") :> JsonObject(data, nextTag))
                        @@ objects
    /\ nextTag' = nextTag + 1
    /\ UNCHANGED <<cache, ret, containers, procVars>>

\* the caller's next call: resolve of the folder of its last call, with no
\* invalidate between the two
ResolveAgain ==
    /\ ret.op \in {"build", "resolve"}
    /\ \E r \in {Resolve(objects, cache, ret.folder)} :
          /\ cache' = r.cache
          /\ ret' = CallRet("resolve", ret.folder, r)
    /\ UNCHANGED <<objects, nextTag, containers, procVars>>

NextAgain ==
    \/ \E folder \in RawFolders : DoBuild(folder)
    \/ \E folder \in RawFolders : DoResolve(folder)
    \/ \E folder \in StoreFolders \cup {<<"a", "a">>}, file_name \in ConfigFiles :
          PutWhileHeld(folder, file_name)
    \/ \E folder \in StoreFolders \cup {<<"a", "a">>} : PutConsolidatedWhileHeld(folder)
    \/ ResolveAgain

SpecAgain == Init /\ [][NextAgain]_vars

(***************************************************************************)
(* DocumentProcessor: the pure steps of the pipeline                       *)
(***************************************************************************)
JString(x) == [kind |-> "string", s |-> x]

\* the keys of a JSON object that the pipeline looks at, when it has any
ObjFields(v) ==
    IF v.kind = "object" /\ "fields" \in DOMAIN v THEN v.fields
    ELSE [k \in {} |-> JNull]

\* params.get(key)
ParamGet(params, key) ==
    IF key \in DOMAIN ObjFields(params) THEN ObjFields(params)[key] ELSE JNull

\* key[0].lower() + key[1:] of the keys the pipeline looks up: all of them
\* start with a lower-case letter, so _lookup_param has no second lookup
LookupParam(params, key) == ParamGet(params, key)

\* a string given by its characters, for the strings the pipeline trims,
\* lower-cases or tests for emptiness
JText(chars) == [kind |-> "string", chars |-> chars]
JFloat(tenths) == [kind |-> "float", tenths |-> tenths]

\* bool(a): None, "", 0 and 0.0 are false
Falsy(a) ==
    \/ a \in {JNull, JString(""), JText(<<>>), JFloat(0)}
    \/ a.kind = "number" /\ a.n = 0

\* a or b
Or(a, b) == IF Falsy(a) THEN b ELSE a

ResolveMimeType(config, document) ==
    LET params_mime == Or(LookupParam(config.params, "mimeType"),
                          LookupParam(config.params, "mime_type"))
    IN  IF params_mime.kind = "string" /\ params_mime # JString("")
        THEN params_mime.s
        ELSE IF document.content_type # "" THEN document.content_type
        ELSE "application/octet-stream"

\* json.dumps(schema, separators=(",", ":")) for a dict or list, str(schema) otherwise
SchemaText(schema) ==
    IF schema.kind \in {"object", "doc", "list"}
    THEN [kind |-> "string", json |-> schema]
    ELSE [kind |-> "string", str |-> schema]

\* a variant of _build_command that always takes the schema and the
\* metadata of the configuration
BuildCommandOverwriting(config, mime_type) ==
    [params |-> config.params,
     mimeType |-> IF "mimeType" \in DOMAIN ObjFields(config.params)
                  THEN ParamGet(config.params, "mimeType") ELSE JString(mime_type),
     schema |-> IF config.schema # JNull THEN SchemaText(config.schema)
                ELSE ParamGet(config.params, "schema"),
     metadata |-> IF config.metadata # JNull THEN config.metadata
                  ELSE ParamGet(config.params, "metadata")]

\* a variant of _build_command that reads the configuration again from the
\* cache entry of its folder
BuildCommandFromCache(config, mime_type) ==
    LET key == Str(config.source_folder)
        current == IF key \in DOMAIN cache THEN cache[key] ELSE config
        own_schema == ParamGet(current.params, "schema")
    IN  [params |-> current.params,
         mimeType |-> IF "mimeType" \in DOMAIN ObjFields(current.params)
                      THEN ParamGet(current.params, "mimeType") ELSE JString(mime_type),
         schema |-> IF own_schema = JNull /\ current.schema # JNull
                    THEN SchemaText(current.schema) ELSE own_schema,
         metadata |-> IF current.metadata # JNull
                         /\ "metadata" \notin DOMAIN ObjFields(current.params)
                      THEN current.metadata ELSE ParamGet(current.params, "metadata")]

\* _build_command: the UploadCommand sent to process_document
BuildCommand(config, mime_type) ==
    LET params == config.params
        own_schema == ParamGet(params, "schema")
    IN  [params |-> params,
         mimeType |-> IF "mimeType" \in DOMAIN ObjFields(params)
                      THEN ParamGet(params, "mimeType") ELSE JString(mime_type),
         schema |-> IF own_schema = JNull /\ config.schema # JNull
                    THEN SchemaText(config.schema) ELSE own_schema,
         metadata |-> IF config.metadata # JNull
                         /\ "metadata" \notin DOMAIN ObjFields(params)
                      THEN config.metadata ELSE ParamGet(params, "metadata")]

NoGuid == ""
Guids == {"job-1", "job-2"}

\* what upload_document may answer: parsed is None, a dict, a typed body
\* or a list; content is empty, JSON text of a dict or of a list, or no JSON
UploadResponse(parsed_kind, parsed_guid, parsed_job, guid, content_kind, content_guid) ==
    [parsed |-> [kind |-> parsed_kind, guid |-> parsed_guid, jobGuid |-> parsed_job],
     guid |-> guid,
     content |-> [kind |-> content_kind, guid |-> content_guid]]

UploadResponses ==
    {UploadResponse("dict", g, NoGuid, g, "dict", g) : g \in Guids}
    \cup {UploadResponse("dict", NoGuid, g, NoGuid, "empty", NoGuid) : g \in Guids}
    \cup {UploadResponse("typed", g, NoGuid, NoGuid, "empty", NoGuid) : g \in Guids}
    \cup {UploadResponse("none", NoGuid, NoGuid, g, "empty", NoGuid) : g \in Guids}
    \cup {UploadResponse("none", NoGuid, NoGuid, NoGuid, "dict", g) : g \in Guids}
    \cup {UploadResponse("dict", "job-1", "job-2", "job-2", "dict", "job-2"),
          UploadResponse("typed", NoGuid, NoGuid, NoGuid, "empty", NoGuid),
          UploadResponse("none", NoGuid, NoGuid, NoGuid, "dict", NoGuid),
          UploadResponse("none", NoGuid, NoGuid, NoGuid, "garbage", NoGuid),
          UploadResponse("none", NoGuid, NoGuid, NoGuid, "list", NoGuid)}

Extracted(status, guid) == [status |-> status, guid |-> guid]
\* a variant of _extract_guid that never reads the response
ExtractGuidFixed(response) == Extracted("ok", "job-1")

\* _extract_guid
ExtractGuid(response) ==
    LET parsed == response.parsed
        from_dict == IF parsed.guid # NoGuid THEN parsed.guid ELSE parsed.jobGuid
    IN  IF parsed.kind = "dict" /\ from_dict # NoGuid
        THEN Extracted("ok", from_dict)
        ELSE IF parsed.kind = "typed" /\ parsed.guid # NoGuid
        THEN Extracted("ok", parsed.guid)
        ELSE IF response.guid # NoGuid
        THEN Extracted("ok", response.guid)
        ELSE IF response.content.kind = "dict" /\ response.content.guid # NoGuid
        THEN Extracted("ok", response.content.guid)
        ELSE IF response.content.kind = "list"
        THEN Extracted("AttributeError", NoGuid)
        ELSE Extracted("RuntimeError", NoGuid)

\* what process_document may answer: the status code (or none), parsed
\* (None, bytes, a model with to_dict, a dict, a plain object, a list) and
\* content (missing, empty or some bytes)
ErrorStatus == 400
StatusCodes == {ErrorStatus - 1, ErrorStatus}
ParsedKinds == {"none", "bytes", "model", "dict", "object", "list"}
ContentKinds == {"missing", "empty", "bytes"}

ProcessResponse(has_status, status_code, parsed, content) ==
    [has_status |-> has_status, status_code |-> status_code,
     parsed |-> parsed, content |-> content]

\* content matters only when parsed is None, and the status code only when
\* the response has one
ProcessResponses ==
    {ProcessResponse(TRUE, c, "none", k) : c \in StatusCodes, k \in ContentKinds}
    \cup {ProcessResponse(TRUE, c, p, "bytes") : c \in StatusCodes, p \in ParsedKinds}
    \cup {ProcessResponse(FALSE, ErrorStatus, p, "bytes") : p \in ParsedKinds}

Serialized(status, text) == [status |-> status, text |-> text]

\* _serialize_response: the bytes, or the TypeError of vars() on a value
\* that has no __dict__
SerializeResponse(response) ==
    IF response.parsed = "none"
    THEN IF response.content = "bytes"
         THEN Serialized("ok", [of |-> "content"])
         ELSE IF response.has_status
         THEN Serialized("ok", [of |-> "status", status |-> response.status_code])
         ELSE Serialized("ok", [of |-> "status unknown"])
    ELSE IF response.parsed = "list" THEN Serialized("TypeError", [of |-> "nothing"])
    ELSE Serialized("ok", [of |-> "parsed", parsed |-> response.parsed])

\* status_code is not None and status_code >= 400
IsRejected(response) == response.has_status /\ response.status_code >= ErrorStatus

JNumber(n) == [kind |-> "number", n |-> n]
JInfinity == [kind |-> "infinity"]

\* _coerce_positive_int and _coerce_positive_float: "none", or "ok" with the
\* number, or the OverflowError of int(float("inf")), which neither catches
Coerced(status, value) == [status |-> status, value |-> value]

\* int(x) of a float given in tenths: truncation towards zero
Truncate(tenths) == IF tenths >= 0 THEN tenths \div 10 ELSE -((-tenths) \div 10)

\* the strings of the model spell no number: int and float raise ValueError
\* on them, TypeError on lists and dicts
CoercePositiveInt(value) ==
    IF value.kind = "number"
    THEN IF value.n > 0 THEN Coerced("ok", value) ELSE Coerced("none", JNull)
    ELSE IF value.kind = "float"
    THEN IF Truncate(value.tenths) > 0
         THEN Coerced("ok", JNumber(Truncate(value.tenths)))
         ELSE Coerced("none", JNull)
    ELSE IF value.kind = "infinity" THEN Coerced("OverflowError", JNull)
    ELSE Coerced("none", JNull)

CoercePositiveFloat(value) ==
    IF value.kind = "number"
    THEN IF value.n > 0 THEN Coerced("ok", value) ELSE Coerced("none", JNull)
    ELSE IF value.kind = "float"
    THEN IF value.tenths > 0 THEN Coerced("ok", value) ELSE Coerced("none", JNull)
    ELSE IF value.kind = "infinity" THEN Coerced("ok", value)
    ELSE Coerced("none", JNull)

ResultFormats == {"json", "csv", "excel"}

\* the characters of the three formats
Spelling ==
    ("json" :> <<"j", "s", "o", "n">>)
    @@ ("csv" :> <<"c", "s", "v">>)
    @@ ("excel" :> <<"e", "x", "c", "e", "l">>)

Whitespace == {" ", "\t", "\n"}

LowerCase ==
    ("C" :> "c") @@ ("S" :> "s") @@ ("V" :> "v") @@ ("E" :> "e") @@ ("X" :> "x")
    @@ ("L" :> "l") @@ ("J" :> "j") @@ ("O" :> "o") @@ ("N" :> "n") @@ ("M" :> "m")

\* str.lower()
Lower(chars) ==
    [i \in 1..Len(chars) |->
        IF chars[i] \in DOMAIN LowerCase THEN LowerCase[chars[i]] ELSE chars[i]]

\* str.strip()
RECURSIVE LStrip(_)
LStrip(chars) ==
    IF chars # <<>> /\ Head(chars) \in Whitespace THEN LStrip(Tail(chars)) ELSE chars

RECURSIVE RStrip(_)
RStrip(chars) ==
    IF chars # <<>> /\ chars[Len(chars)] \in Whitespace
    THEN RStrip(SubSeq(chars, 1, Len(chars) - 1)) ELSE chars

Strip(chars) == RStrip(LStrip(chars))

\* a variant of the normalisation that does not trim
NormalizedFormatUntrimmed(value) ==
    IF value.kind # "string" THEN "none"
    ELSE IF "chars" \notin DOMAIN value
    THEN IF value.s \in ResultFormats THEN value.s ELSE "none"
    ELSE IF \E f \in ResultFormats : Spelling[f] = Lower(value.chars)
    THEN CHOOSE f \in ResultFormats : Spelling[f] = Lower(value.chars)
    ELSE "none"

\* result_format.strip().lower() and the test against the three formats; a
\* string given by name holds no blanks and no upper-case letters
NormalizedFormat(value) ==
    IF value.kind # "string" THEN "none"
    ELSE IF "chars" \notin DOMAIN value
    THEN IF value.s \in ResultFormats THEN value.s ELSE "none"
    ELSE IF \E f \in ResultFormats : Spelling[f] = Lower(Strip(value.chars))
    THEN CHOOSE f \in ResultFormats : Spelling[f] = Lower(Strip(value.chars))
    ELSE "none"

\* _resolve_wait_parameters: the format and the keyword arguments of the wait
ResolveWaitParameters(params) ==
    LET format == NormalizedFormat(LookupParam(params, "resultFormat"))
        timeout == CoercePositiveInt(Or(LookupParam(params, "resultTimeoutSeconds"),
                                        LookupParam(params, "resultTimeout")))
        poll == CoercePositiveFloat(Or(LookupParam(params, "resultPollIntervalSeconds"),
                                       LookupParam(params, "resultPollInterval")))
        keys == (IF timeout.status = "ok" THEN {"timeout"} ELSE {})
                  \cup (IF poll.status = "ok" THEN {"poll_interval"} ELSE {})
                  \cup (IF format # "none" THEN {"result_format"} ELSE {})
    IN  [status |-> IF timeout.status = "OverflowError" THEN "OverflowError" ELSE "ok",
         format |-> format,
         kwargs |-> [k \in keys |->
                       IF k = "timeout" THEN timeout.value
                       ELSE IF k = "poll_interval" THEN poll.value
                       ELSE JString(format)]]

\* what wait_until_ready may return: bytes, a str, a dict or a list, and a
\* dict holding a value json.dumps cannot encode
ResultKinds == {"bytes", "str", "dict", "unserializable"}

\* _serialize_result
SerializeResult(result) ==
    IF result = "unserializable" THEN Serialized("TypeError", [of |-> "nothing"])
    ELSE Serialized("ok", [of |-> "result", result |-> result])

\* _resolve_output_descriptor
ResolveOutputDescriptor(format) ==
    IF format = "csv" THEN <<"csv", "text/csv">>
    ELSE IF format = "excel"
    THEN <<"xlsx", "application/vnd.openxmlformats-officedocument.spreadsheetml.sheet">>
    ELSE <<"json", "application/json">>

\* f"{blob_name}.{extension}"
TargetName(blob_name, extension) == [blob |-> blob_name, extension |-> extension]

\* an exception: its type and what str(exc) gives
Exception(type, text) == [type |-> type, text |-> text]
\* a variant of _write_failure that writes under the success artifact's name
WriteFailureAsResult(cs, outs, blob_name, exc, tag, fault) ==
    PutObject(cs, outs, OutputContainer, TargetName(blob_name, "json"),
        Dumps([status |-> "error", message |-> exc.text]), "application/json",
        UuidTag, tag, fault)

\* _write_failure: the put of the failure artifact
WriteFailure(cs, outs, blob_name, exc, tag, fault) ==
    PutObject(cs, outs, OutputContainer, TargetName(blob_name, "error.json"),
        Dumps([status |-> "error", message |-> exc.text]), "application/json",
        UuidTag, tag, fault)

\* _write_success: the put of the success artifact
WriteSuccess(cs, outs, blob_name, payload, extension, content_type, tag, fault) ==
    PutObject(cs, outs, OutputContainer, TargetName(blob_name, extension),
        payload, content_type, UuidTag, tag, fault)

(***************************************************************************)
(* DocumentProcessor.process_blob: one action for each stretch of the      *)
(* coroutine between two suspensions (the awaits of upload_document,       *)
(* process_document and wait_until_ready)                                  *)
(***************************************************************************)
\* the documents of the input container, and the blobs events name
DocBlobs ==
    (<<"a", "doc.pdf">> :> StorageObject(Raw("pdf"), "application/pdf", FirstTag))

BlobNames == DOMAIN DocBlobs \cup {<<"missing.pdf">>}

\* the configuration files of the input container when a document arrives
ProcConfigs ==
    { Restrict(InitBlobs, {}),
      Restrict(InitBlobs, {<<"a", "params.json">>, <<"a", "schema.json">>}),
      Restrict(InitBlobs, {<<"__default__", "params.json">>}),
      Restrict(InitBlobs, {<<"a", "config.json">>, <<"a", "params.json">>}),
      (<<"a", "config.json">> :>
          JsonObject(Dumps(JDoc(Absent, Absent, Absent, <<"a">>)), 4))
        @@ Restrict(InitBlobs, {<<"__default__", "params.json">>}),
      (<<"a", "params.json">> :> JsonObject(Dumps(JNull), 1)) }

InitProc ==
    /\ objects \in {DocBlobs @@ c : c \in ProcConfigs}
    /\ cache = EmptyCache
    /\ nextTag = FirstTag + Cardinality(DOMAIN DocBlobs)
    /\ ret = NoRet
    /\ containers \in {{InputContainer}, {InputContainer, OutputContainer}}
    /\ out = NoBlobs
    /\ inv = [i \in 1..MaxInv |-> Idle]
    /\ instances = NoInstances
    /\ events = NoEvents

\* an entry of the log of a coroutine: a step of the pipeline, the job
\* identifier and argument it was called with, how it ended ("pending"
\* while the coroutine awaits it) and what it returned
Step(op, guid, arg, result, returned) ==
    [op |-> op, guid |-> guid, arg |-> arg, result |-> result, returned |-> returned]

Nothing == [kind |-> "nothing"]

\* the last entry of the log, the awaited call, now that it has ended
Returned(calls, result, returned) ==
    [calls EXCEPT ![Len(calls)] = [@ EXCEPT !.result = result, !.returned = returned]]

\* the job identifiers an upload response holds anywhere
GuidsIn(response) ==
    {response.parsed.guid, response.parsed.jobGuid, response.guid,
     response.content.guid} \ {NoGuid}

\* the except branch of process_blob, entered with exception exc from the
\* frame frame, the output container being outs and the containers cs
Except(i, frame, outs, cs, exc) ==
    \E fault \in Faults :
    LET put == WriteFailure(cs, outs, frame.blob_name, exc, nextTag, fault)
        ok == put.status = "ok"
    IN  /\ out' = put.objects
        /\ containers' = put.containers
        /\ nextTag' = IF ok THEN nextTag + 1 ELSE nextTag
        /\ inv' = [inv EXCEPT ![i] =
                      [frame EXCEPT !.pc = "done", !.exc = exc,
                          !.outcome = IF ok THEN "FAILURE" ELSE "RAISED",
                          !.calls = Append(@, Step("write_failure", NoGuid, Nothing,
                                                   put.status, Nothing)),
                          !.writes = @ \o put.written]]

\* process_blob from its call to the await of upload_document
Start(i, blob_name, fetch_fault) ==
    LET blob_path == PosixPath(blob_name)
        frame == [Idle EXCEPT !.blob_name = blob_name]
        folder == Parent(blob_path)
        r == Resolve(objects, cache, folder)
        mime_type == ResolveMimeType(r.config, objects[blob_path])
        Fetch(result) == Step("get_object", NoGuid, Nothing, result, Nothing)
        Resolved == Step("resolve", NoGuid, Nothing, r.status, Nothing)
        Upload == Step("upload_document", NoGuid,
                      [file_name |-> blob_path[Len(blob_path)], mime_type |-> mime_type],
                      "pending", Nothing)
    IN  /\ inv[i].pc = "idle"
        /\ \A j \in 1..(i - 1) : inv[j].pc # "idle"
        /\ UNCHANGED <<objects, ret, instances, events>>
        /\ IF fetch_fault
           THEN /\ cache' = cache
                /\ Except(i, [frame EXCEPT !.calls = <<Fetch("HttpResponseError")>>],
                      out, containers,
                      Exception("HttpResponseError", [kind |-> "get_object"]))
           ELSE IF ~HasObject(objects, blob_path)
           THEN /\ cache' = cache
                /\ Except(i, [frame EXCEPT !.calls = <<Fetch("None")>>],
                      out, containers,
                      Exception("FileNotFoundError",
                          [kind |-> "blob not found", blob |-> blob_name]))
           ELSE /\ cache' = r.cache
                /\ IF r.status # "ok"
                   THEN Except(i, [frame EXCEPT !.calls = <<Fetch("ok"), Resolved>>],
                            out, containers,
                            Exception(r.status,
                                [kind |-> "no configuration", folder |-> folder]))
                   ELSE IF ~HasGet(r.config.params)
                   THEN Except(i, [frame EXCEPT !.calls = <<Fetch("ok"), Resolved>>,
                                                !.config = r.config],
                            out, containers,
                            Exception("AttributeError", [kind |-> "params.get"]))
                   ELSE /\ inv' = [inv EXCEPT ![i] =
                                     [frame EXCEPT !.pc = "upload", !.config = r.config,
                                         !.mime_type = mime_type,
                                         !.calls = <<Fetch("ok"), Resolved, Upload>>]]
                        /\ UNCHANGED <<out, containers, nextTag>>

\* a call of the DocuDevs client that raises instead of returning
ClientRaises == [raises |-> "boom"]

\* from the return of upload_document to the await of process_document
UploadReturn(i, response) ==
    LET frame == inv[i]
        guid == ExtractGuid(response)
        Ended(result) ==
            [frame EXCEPT !.calls = Returned(@, result, [guids |-> GuidsIn(response)])]
    IN  /\ frame.pc = "upload"
        /\ UNCHANGED <<objects, cache, ret, instances, events>>
        /\ IF response = ClientRaises
           THEN Except(i, [frame EXCEPT !.calls = Returned(@, "raised", Nothing)],
                    out, containers,
                    Exception("ClientError", [kind |-> "upload_document"]))
           ELSE IF guid.status # "ok"
           THEN Except(i, Ended(guid.status), out, containers,
                    Exception(guid.status, [kind |-> "Upload response missing guid"]))
           ELSE /\ inv' = [inv EXCEPT ![i] =
                             [Ended("ok") EXCEPT !.pc = "process", !.guid = guid.guid,
                                 !.calls = Append(@, Step("process_document", guid.guid,
                                     BuildCommand(frame.config, frame.mime_type),
                                     "pending", Nothing))]]
                /\ UNCHANGED <<out, containers, nextTag>>

\* from the return of process_document to the await of wait_until_ready
ProcessReturn(i, response) ==
    LET frame == inv[i]
        body == SerializeResponse(response)
        wait == ResolveWaitParameters(frame.config.params)
        Ended(result) ==
            [frame EXCEPT !.calls = Returned(@, result,
                [has_status |-> response.has_status,
                 status_code |-> response.status_code])]
    IN  /\ frame.pc = "process"
        /\ UNCHANGED <<objects, cache, ret, instances, events>>
        /\ IF response = ClientRaises
           THEN Except(i, [frame EXCEPT !.calls = Returned(@, "raised", Nothing)],
                    out, containers,
                    Exception("ClientError", [kind |-> "process_document"]))
           ELSE IF IsRejected(response)
           THEN IF body.status # "ok"
                THEN Except(i, Ended("rejected"), out, containers,
                         Exception(body.status, [kind |-> "vars"]))
                ELSE Except(i, Ended("rejected"), out, containers,
                         Exception("RuntimeError",
                             [kind |-> "DocuDevs process_document failed",
                              status_code |-> response.status_code,
                              payload |-> body.text]))
           ELSE IF wait.status # "ok"
           THEN Except(i, Ended("ok"), out, containers,
                    Exception(wait.status, [kind |-> "int"]))
           ELSE /\ inv' = [inv EXCEPT ![i] =
                             [Ended("ok") EXCEPT !.pc = "wait",
                                 !.calls = Append(@, Step("wait_until_ready",
                                     frame.guid, wait.kwargs, "pending", Nothing))]]
                /\ UNCHANGED <<out, containers, nextTag>>

\* from the return of wait_until_ready to the return of process_blob
WaitReturn(i, result) ==
    LET frame == inv[i]
        payload == SerializeResult(result)
        wait == ResolveWaitParameters(frame.config.params)
        descriptor == ResolveOutputDescriptor(wait.format)
        Ended(status) == [frame EXCEPT !.calls = Returned(@, status, [kind |-> result])]
    IN  /\ frame.pc = "wait"
        /\ UNCHANGED <<objects, cache, ret, instances, events>>
        /\ IF result = "raises"
           THEN Except(i, Ended("raised"), out, containers,
                    Exception("ClientError", [kind |-> "wait_until_ready"]))
           ELSE IF payload.status # "ok"
           THEN Except(i, Ended(payload.status), out, containers,
                    Exception(payload.status, [kind |-> "json.dumps"]))
           ELSE \E fault \in Faults :
                LET put == WriteSuccess(containers, out, frame.blob_name,
                               Dumps(payload.text), descriptor[1], descriptor[2],
                               nextTag, fault)
                    written == [Ended("ok") EXCEPT
                                   !.calls = Append(@, Step("write_success", NoGuid,
                                                 Nothing, put.status, Nothing)),
                                   !.writes = @ \o put.written]
                IN  IF put.status # "ok"
                    THEN Except(i, written, put.objects, put.containers,
                             Exception(put.status, [kind |-> "put_object"]))
                    ELSE /\ out' = put.objects
                         /\ containers' = put.containers
                         /\ nextTag' = nextTag + 1
                         /\ inv' = [inv EXCEPT ![i] =
                                      [written EXCEPT !.pc = "done",
                                                      !.outcome = "SUCCESS"]]

Invocations == 1..MaxInv

NextProc ==
    \/ \E i \in Invocations, blob_name \in BlobNames, fetch_fault \in BOOLEAN :
          Start(i, blob_name, fetch_fault)
    \/ \E i \in Invocations, response \in UploadResponses \cup {ClientRaises} :
          UploadReturn(i, response)
    \/ \E i \in Invocations, response \in ProcessResponses \cup {ClientRaises} :
          ProcessReturn(i, response)
    \/ \E i \in Invocations, result \in ResultKinds \cup {"raises"} :
          WaitReturn(i, result)

SpecProc == InitProc /\ [][NextProc]_vars

(***************************************************************************)
(* process_blob under the parameters of params.json: folder a holds a      *)
(* params.json with some of the keys the pipeline reads, the DocuDevs      *)
(* client answers every call, and the result is bytes or a dict.           *)
(***************************************************************************)
JMap(fields) == [kind |-> "object", fields |-> fields]

Csv == JText(<<"c", "s", "v">>)
CsvPadded == JText(<<" ", "C", "S", "V", "\n">>)
Excel == JText(<<"E", "x", "c", "e", "l">>)
Json == JText(<<"\t", "j", "s", "o", "n">>)
Xml == JText(<<"x", "m", "l">>)
Soon == JText(<<"s", "o", "o", "n">>)

\* values of resultFormat: the three formats in some spelling, an
\* unsupported word, the empty string, a number
FormatValues == {Csv, CsvPadded, Excel, Json, Xml, JText(<<>>), JNumber(5)}

\* values of the timeout keys and of the poll interval keys: integers, the
\* floats 2.5, 0.5 and -0.5, a word, and the float 1e999 reads as
TimeoutValues ==
    {JNumber(30), JNumber(0), JNumber(-1), JFloat(25), JFloat(5), Soon, JInfinity}
PollValues ==
    {JFloat(25), JNumber(2), JNumber(0), JFloat(-5), Soon, JInfinity}

TimeoutKeys == {"resultTimeoutSeconds", "resultTimeout"}
PollKeys == {"resultPollIntervalSeconds", "resultPollInterval"}

WaitParams ==
    {[k \in {} |-> JNull]}
    \cup {("resultFormat" :> v) : v \in FormatValues}
    \cup {(k :> v) : k \in TimeoutKeys, v \in TimeoutValues}
    \cup {(k :> v) : k \in PollKeys, v \in PollValues}
    \cup {("resultTimeoutSeconds" :> JNumber(0)) @@ ("resultTimeout" :> JNumber(30)),
          ("resultPollIntervalSeconds" :> Soon) @@ ("resultPollInterval" :> JNumber(2)),
          ("resultFormat" :> Csv) @@ ("resultTimeoutSeconds" :> JNumber(30))
              @@ ("resultPollIntervalSeconds" :> JFloat(25)),
          ("resultFormat" :> Xml) @@ ("resultTimeout" :> Soon)
              @@ ("resultPollInterval" :> JNumber(0))}

ParamsBlob(fields) ==
    (<<"a", "params.json">> :> JsonObject(Dumps(JMap(fields)), 1))

\* params that bear on the command: a MIME type under either key, a schema
\* or a metadata of their own or null, another parameter
CommandParams ==
    {("mimeType" :> JString("text/plain")), ("mime_type" :> JString("image/png")),
     ("schema" :> JString("own")), ("schema" :> JNull),
     ("metadata" :> JObj("own")), ("metadata" :> JNull),
     ("prompt" :> JString("extract")) @@ ("mimeType" :> JNull)}

\* the schema.json and metadata.json beside params.json: none, objects, or
\* a schema that is a JSON string
SchemaBlobs ==
    {Restrict(InitBlobs, {}),
     Restrict(InitBlobs, {<<"a", "schema.json">>}),
     (<<"a", "schema.json">> :> JsonObject(Dumps(JString("invoice")), 2))}
MetadataBlobs ==
    {Restrict(InitBlobs, {}),
     (<<"a", "metadata.json">> :> JsonObject(Content("metadata.json", 3), 3))}

InitParams ==
    /\ objects \in {DocBlobs @@ ParamsBlob(fields) : fields \in WaitParams}
                      \cup {DocBlobs @@ ParamsBlob(fields) @@ schema @@ metadata :
                               fields \in CommandParams, schema \in SchemaBlobs,
                               metadata \in MetadataBlobs}
    /\ cache = EmptyCache
    /\ nextTag = FirstTag + Cardinality(DOMAIN DocBlobs)
    /\ ret = NoRet
    /\ containers = {InputContainer, OutputContainer}
    /\ out = NoBlobs
    /\ inv = [i \in 1..MaxInv |-> Idle]
    /\ instances = NoInstances
    /\ events = NoEvents

Accepting == ProcessResponse(TRUE, ErrorStatus - 1, "none", "empty")

NextParams ==
    \/ \E i \in Invocations : Start(i, <<"a", "doc.pdf">>, FALSE)
    \/ \E i \in Invocations :
          UploadReturn(i, UploadResponse("dict", "job-1", NoGuid, NoGuid, "empty", NoGuid))
    \/ \E i \in Invocations : ProcessReturn(i, Accepting)
    \/ \E i \in Invocations, result \in {"bytes", "dict"} : WaitReturn(i, result)

SpecParams == InitParams /\ [][NextParams]_vars

(***************************************************************************)
(* process_blob while the configuration of its folder changes: users       *)
(* replace params.json of folder a and the store is invalidated, rebuilt   *)
(* and written by handle_config_update while a coroutine is suspended.     *)
(***************************************************************************)
\* the params.json a user may put in place of the one before
LiveParams ==
    {("resultFormat" :> Csv),
     ("resultFormat" :> Json) @@ ("mimeType" :> JString("text/plain"))}

Suspended(i) == inv[i].pc \in {"upload", "process", "wait"}

\* tags left for the users' uploads and the handler's writes
TagsLeft ==
    nextTag < FirstTag + Cardinality(DOMAIN DocBlobs) + MaxChanges + MaxWrites

InitLive ==
    /\ objects \in {DocBlobs @@ ParamsBlob(fields) : fields \in LiveParams}
    /\ cache = EmptyCache
    /\ nextTag = FirstTag + Cardinality(DOMAIN DocBlobs)
    /\ ret = NoRet
    /\ containers = {InputContainer, OutputContainer}
    /\ out = NoBlobs
    /\ inv = [i \in 1..MaxInv |-> Idle]
    /\ instances = NoInstances
    /\ events = NoEvents

\* a user replaces params.json of folder a while a coroutine is suspended
PutParamsWhileSuspended(fields) ==
    /\ \E i \in Invocations : Suspended(i)
    /\ TagsLeft
    /\ objects' = (<<"a", "params.json">> :> JsonObject(Dumps(JMap(fields)), nextTag))
                     @@ objects
    /\ nextTag' = nextTag + 1
    /\ UNCHANGED <<cache, ret, containers, procVars>>

\* handle_config_update runs for params.json of folder a while a coroutine
\* is suspended
EventWhileSuspended(event_type, fault) ==
    /\ \E i \in Invocations : Suspended(i)
    /\ ret = NoRet
    /\ TagsLeft
    /\ \E h \in {HandleConfigUpdate(containers, objects, cache, InputContainer,
                     <<"a", "params.json">>, event_type, nextTag, fault)} :
          /\ objects' = h.objects
          /\ containers' = h.containers
          /\ cache' = h.cache
          /\ nextTag' = IF h.status = "rebuilt" THEN nextTag + 1 ELSE nextTag
          /\ ret' = [NoRet EXCEPT !.op = "handle_config_update", !.folder = <<"a">>,
                                  !.status = h.status, !.config = h.config,
                                  !.attempts = h.attempts]
    /\ UNCHANGED procVars

\* one coroutine runs; the others stay idle
NextLive ==
    \/ Start(1, <<"a", "doc.pdf">>, FALSE)
    \/ UploadReturn(1, UploadResponse("dict", "job-1", NoGuid, NoGuid, "empty", NoGuid))
    \/ ProcessReturn(1, Accepting)
    \/ WaitReturn(1, "dict")
    \/ \E fields \in LiveParams : PutParamsWhileSuspended(fields)
    \/ \E event_type \in EventTypes : EventWhileSuspended(event_type, NoFault)
    \/ DoInvalidate(<<"a">>)
    \/ DoBuild(<<"a">>)
    \/ Return

SpecLive == InitLive /\ [][NextLive]_vars

(***************************************************************************)
(* function_app: handle_document_ingest.  A subject is the sequence of its *)
(* segments between slashes, after the leading slash.                      *)
(***************************************************************************)
SubjectPrefix == <<"blobServices", "default", "containers">>

\* unquote(segment) for the segments that hold a percent escape: the
\* components of the decoded text (%2F decodes to a slash)
Unquoted ==
    ("my%20doc.pdf" :> <<"my doc.pdf">>)
    @@ ("a%2Fparams.json" :> <<"a", "params.json">>)
    @@ ("notes%2Ejson" :> <<"notes.json">>)

Unquote(segment) ==
    IF segment \in DOMAIN Unquoted THEN Unquoted[segment] ELSE <<segment>>

RECURSIVE UnquoteAll(_)
UnquoteAll(segments) ==
    IF segments = <<>> THEN <<>>
    ELSE Unquote(Head(segments)) \o UnquoteAll(Tail(segments))

NoSubject == [container |-> <<>>, blob_name |-> <<>>]

\* _parse_subject: the segments of the container and the decoded blob name,
\* or None
ParseSubject(subject) ==
    LET remainder == SubSeq(subject, 4, Len(subject))
        marks == {j \in 2..(Len(remainder) - 1) : remainder[j] = "blobs"}
        first == CHOOSE j \in marks : \A k \in marks : j <= k
        container == SubSeq(remainder, 1, first - 1)
        blob_part == SubSeq(remainder, first + 1, Len(remainder))
    IN  IF Len(subject) < 4 \/ SubSeq(subject, 1, 3) # SubjectPrefix THEN NoSubject
        ELSE IF marks = {} THEN NoSubject
        ELSE IF container = <<"">> \/ blob_part = <<"">> THEN NoSubject
        ELSE [container |-> container, blob_name |-> UnquoteAll(blob_part)]

\* PurePosixPath(blob_name).name
Name(blob_name) ==
    IF PosixPath(blob_name) = <<>> THEN ""
    ELSE PosixPath(blob_name)[Len(PosixPath(blob_name))]

\* the file names of the model that end in ".json"
JsonNames ==
    {"params.json", "schema.json", "metadata.json", "config.json", "notes.json",
     "doc.pdf.json", "doc.pdf.error.json"}

\* a variant of the dispatcher's filter that lets config.json through
IngestFilterConfigOnly(file_name) == file_name \in ConfigFiles

\* file_name in CONFIG_FILES or file_name.endswith(".json")
IngestFilter(file_name) == file_name \in ConfigFiles \/ file_name \in JsonNames

\* the subject of the event of a blob of a container
BlobSubject(container, blob) == SubjectPrefix \o <<container, "blobs">> \o blob

\* the subjects of the events: documents, configuration files and other
\* JSON files of the input container, an artifact of the output container,
\* and subjects that are no blob subjects
Subjects ==
    {BlobSubject(InputContainer, blob) :
        blob \in {<<"a", "doc.pdf">>, <<"my%20doc.pdf">>, <<"blobs", "doc.pdf">>,
                  <<"a", "DATA.JSON">>, <<"a", "params.json">>, <<"a", "schema.json">>,
                  <<"metadata.json">>, <<"a", "config.json">>, <<"notes%2Ejson">>,
                  <<"a%2Fparams.json">>, <<"">>}}
    \cup {BlobSubject(OutputContainer, <<"a", "doc.pdf">>),
          BlobSubject("", <<"a", "doc.pdf">>),
          SubjectPrefix \o <<InputContainer, "a", "doc.pdf">>,
          <<"blobServices", "default", "queues", InputContainer, "blobs", "doc.pdf">>,
          <<>>}

\* handle_document_ingest up to the first await of process_blob, or to its
\* return when it ignores the event
IngestEvent(i, subject, fetch_fault) ==
    LET parsed == ParseSubject(subject)
        Ignore(status) ==
            /\ ret' = [NoRet EXCEPT !.op = "handle_document_ingest", !.status = status]
            /\ UNCHANGED <<objects, cache, nextTag, containers, procVars>>
    IN  IF parsed = NoSubject \/ parsed.container # <<InputContainer>>
        THEN Ignore("ignored")
        ELSE IF IngestFilter(Name(parsed.blob_name)) THEN Ignore("skipped")
        ELSE Start(i, parsed.blob_name, fetch_fault)

InitIngest ==
    /\ objects = DocBlobs @@ Restrict(InitBlobs, {<<"a", "params.json">>})
    /\ cache = EmptyCache
    /\ nextTag = FirstTag + Cardinality(DOMAIN DocBlobs)
    /\ ret = NoRet
    /\ containers \in {{InputContainer}, {InputContainer, OutputContainer}}
    /\ out = NoBlobs
    /\ inv = [i \in 1..MaxInv |-> Idle]
    /\ instances = NoInstances
    /\ events = NoEvents

NextIngest ==
    \/ \E i \in Invocations, subject \in Subjects, fetch_fault \in BOOLEAN :
          IngestEvent(i, subject, fetch_fault)
    \/ \E i \in Invocations, guid \in Guids :
          UploadReturn(i, UploadResponse("dict", guid, NoGuid, NoGuid, "empty", NoGuid))
    \/ \E i \in Invocations, response \in {Accepting, ClientRaises} :
          ProcessReturn(i, response)
    \/ \E i \in Invocations, result \in {"bytes", "dict", "raises"} :
          WaitReturn(i, result)

SpecIngest == InitIngest /\ [][NextIngest]_vars

(***************************************************************************)
(* The function app and Event Grid: every change of a blob raises an event *)
(* that is delivered to handle_config_update and to handle_document_ingest,*)
(* the changes the handlers make included.                                 *)
(***************************************************************************)
Handlers == {"handle_config_update", "handle_document_ingest"}

Event(container, blob_name, event_type) ==
    [container |-> container, blob_name |-> blob_name, event_type |-> event_type]

\* the deliveries of an event, one for each function
Deliveries(event) ==
    {[to |-> handler, event |-> event] : handler \in Handlers}

\* the events of the changes that lead from the blobs objs to objs2
Raised(objs, objs2) ==
    {Event(InputContainer, n, BlobCreated) :
        n \in {m \in DOMAIN objs2 : m \notin DOMAIN objs \/ objs[m].etag # objs2[m].etag}}
    \cup {Event(InputContainer, n, BlobDeleted) : n \in DOMAIN objs \ DOMAIN objs2}

\* the events of the users' changes: a configuration file of the root or of
\* folder a was uploaded or deleted
UserEvents ==
    {Event(InputContainer, Join(folder, file_name), event_type) :
        folder \in EventFolders, file_name \in ConfigFiles, event_type \in EventTypes}

InitLoop ==
    /\ objects \in {Restrict(InitBlobs, S) : S \in SUBSET DOMAIN InitBlobs}
    /\ cache = EmptyCache
    /\ nextTag = FirstTag
    /\ ret = NoRet
    /\ containers = {InputContainer}
    /\ out = NoBlobs
    /\ inv = [i \in 1..MaxInv |-> Idle]
    /\ instances = NoInstances
    /\ events \in {UNION {Deliveries(e) : e \in E} :
                     E \in {U \in SUBSET UserEvents :
                              U # {} /\ Cardinality(U) <= MaxChanges}}

\* handle_config_update runs for a pending delivery; the changes it makes
\* raise events of their own
ConfigDelivery(d, fault) ==
    /\ d \in events
    /\ d.to = "handle_config_update"
    /\ \E h \in {HandleConfigUpdate(containers, objects, cache, d.event.container,
                     d.event.blob_name, d.event.event_type, nextTag, fault)} :
          /\ objects' = h.objects
          /\ containers' = h.containers
          /\ cache' = h.cache
          /\ nextTag' = IF h.status = "rebuilt" THEN nextTag + 1 ELSE nextTag
          /\ ret' = [NoRet EXCEPT !.op = "handle_config_update",
                                  !.folder = Parent(d.event.blob_name),
                                  !.status = h.status, !.config = h.config,
                                  !.attempts = h.attempts]
          /\ events' = (events \ {d})
                          \cup UNION {Deliveries(e) : e \in Raised(objects, h.objects)}
    /\ UNCHANGED <<out, inv, instances>>

\* handle_document_ingest runs for a pending delivery: it returns at once
\* for an event it ignores or skips and calls process_blob otherwise, the
\* delivery staying pending until process_blob returns
IngestDelivery(d, i) ==
    /\ d \in events
    /\ d.to = "handle_document_ingest"
    /\ \E parsed \in {ParseSubject(BlobSubject(d.event.container, d.event.blob_name))} :
          IF parsed = NoSubject \/ parsed.container # <<InputContainer>>
                \/ IngestFilter(Name(parsed.blob_name))
          THEN /\ events' = events \ {d}
               /\ ret' = [NoRet EXCEPT !.op = "handle_document_ingest",
                             !.status = IF parsed = NoSubject
                                           \/ parsed.container # <<InputContainer>>
                                        THEN "ignored" ELSE "skipped"]
               /\ UNCHANGED <<objects, cache, nextTag, containers, out, inv, instances>>
          ELSE Start(i, parsed.blob_name, FALSE)

NextLoop ==
    \/ \E d \in events :
          \E fault \in EventFaults(d.event.event_type) : ConfigDelivery(d, fault)
    \/ \E d \in events, i \in Invocations : IngestDelivery(d, i)

SpecLoop == InitLoop /\ [][NextLoop]_vars

(***************************************************************************)
(* Claims about process_blob, checked under SpecProc                       *)
(***************************************************************************)
ClientOps == {"upload_document", "process_document", "wait_until_ready"}
Pipeline ==
    <<"get_object", "resolve", "upload_document", "process_document",
      "wait_until_ready", "write_success">>

IsPipelineStep(e) == e.op # "write_failure"
PipelineSteps(f) == SelectSeq(f.calls, IsPipelineStep)
Count(f, op) == Cardinality({k \in DOMAIN f.calls : f.calls[k].op = op})
HasReturned(f) == f.pc = "done" /\ f.outcome \in {"SUCCESS", "FAILURE"}

\* C1: process_blob never raises outward: every invocation that has ended,
\* whatever the storage backend and the DocuDevs client did, returned
\* SUCCESS or FAILURE.
C1_NeverRaises ==
    \A i \in Invocations :
        inv[i].pc = "done" => inv[i].outcome \in {"SUCCESS", "FAILURE"}

\* C2: an invocation that returned made exactly one successful write to the
\* output container: <key>.<ext> when it returned SUCCESS, <key>.error.json
\* holding status "error" and the exception text when it returned FAILURE,
\* and it returned FAILURE whenever a step raised.
C2_OneArtifact ==
    \A i \in Invocations :
        LET f == inv[i]
        IN  HasReturned(f) =>
              /\ Len(f.writes) = 1
              /\ f.writes[1].name \in DOMAIN out
              /\ f.outcome = "SUCCESS" =>
                    /\ f.exc = NoException
                    /\ \A k \in DOMAIN f.calls : f.calls[k].result = "ok"
                    /\ f.writes[1].name.blob = f.blob_name
                    /\ f.writes[1].name.extension \in {"json", "csv", "xlsx"}
              /\ f.outcome = "FAILURE" =>
                    /\ f.exc # NoException
                    /\ f.writes[1].name =
                          [blob |-> f.blob_name, extension |-> "error.json"]
                    /\ f.writes[1].data =
                          Dumps([status |-> "error", message |-> f.exc.text])
                    /\ f.writes[1].content_type = "application/json"

\* C2's case: the write of the success artifact raised, and the invocation
\* returned FAILURE with the failure artifact as its one write
C2_Witness ==
    \E i \in Invocations :
        /\ inv[i].outcome = "FAILURE"
        /\ \E k \in DOMAIN inv[i].calls :
              /\ inv[i].calls[k].op = "write_success"
              /\ inv[i].calls[k].result # "ok"
        /\ Len(inv[i].writes) = 1

\* C3: the steps of an invocation occur in the order fetch, resolve,
\* upload_document, process_document, wait_until_ready, success write; a step
\* runs only when every earlier one succeeded; process_document and
\* wait_until_ready get a job identifier of the upload response of the same
\* invocation, the same one for both.
C3_Order ==
    \A i \in Invocations :
        LET f == inv[i]
            steps == PipelineSteps(f)
        IN  /\ Len(steps) <= Len(Pipeline)
            /\ \A k \in DOMAIN steps : steps[k].op = Pipeline[k]
            /\ \A k \in DOMAIN steps : k < Len(steps) => steps[k].result = "ok"
            /\ \A k \in DOMAIN f.calls :
                  f.calls[k].op = "write_failure" => k = Len(f.calls)
            /\ \A k \in DOMAIN steps :
                  steps[k].op \in {"process_document", "wait_until_ready"} =>
                      /\ steps[k].guid # NoGuid
                      /\ steps[k].guid \in steps[3].returned.guids
                      /\ steps[k].guid = steps[4].guid

\* C3's case: an invocation ran all six steps, its upload response holding
\* two job identifiers
C3_Witness ==
    \E i \in Invocations :
        /\ inv[i].outcome = "SUCCESS"
        /\ Len(inv[i].calls) = Len(Pipeline)
        /\ inv[i].calls[3].returned.guids = Guids
        /\ inv[i].calls[5].guid = "job-1"

\* C4: upload_document, process_document and wait_until_ready are each
\* called at most once in an invocation, and the first failure of one of
\* them ends the invocation: no later client call, and the outcome FAILURE.
C4_NoRetry ==
    \A i \in Invocations :
        LET f == inv[i]
        IN  /\ \A op \in ClientOps : Count(f, op) <= 1
            /\ \A k \in DOMAIN f.calls :
                  (f.calls[k].op \in ClientOps
                      /\ f.calls[k].result \notin {"ok", "pending"}) =>
                        /\ \A m \in DOMAIN f.calls :
                              m > k => f.calls[m].op \notin ClientOps
                        /\ f.pc = "done"
                        /\ f.outcome = "FAILURE"

\* what of C4 holds of the code: no retry, and a failure ends the invocation
C4_NoRetryNoOutcome ==
    \A i \in Invocations :
        LET f == inv[i]
        IN  /\ \A op \in ClientOps : Count(f, op) <= 1
            /\ \A k \in DOMAIN f.calls :
                  (f.calls[k].op \in ClientOps
                      /\ f.calls[k].result \notin {"ok", "pending"}) =>
                        /\ \A m \in DOMAIN f.calls :
                              m > k => f.calls[m].op \notin ClientOps
                        /\ f.pc = "done"
                        /\ f.outcome # "SUCCESS"

\* the process_document response of status 400 or more that frame f got
Rejected(f, k) ==
    /\ f.calls[k].op = "process_document"
    /\ f.calls[k].result \notin {"pending", "raised"}
    /\ f.calls[k].returned.has_status
    /\ f.calls[k].returned.status_code >= 400

Accepted(f, k) ==
    /\ f.calls[k].op = "process_document"
    /\ f.calls[k].result \notin {"pending", "raised"}
    /\ ~(f.calls[k].returned.has_status /\ f.calls[k].returned.status_code >= 400)

\* C5: after a process_document response of status 400 or more the
\* invocation returns FAILURE, never calls wait_until_ready, writes no
\* success artifact, and persists an error message with the status code and
\* the serialized response body; any other response goes on to the wait.
C5_Rejected ==
    \A i \in Invocations :
        LET f == inv[i]
        IN  \A k \in DOMAIN f.calls :
              /\ Rejected(f, k) =>
                    /\ f.outcome = "FAILURE"
                    /\ Count(f, "wait_until_ready") = 0
                    /\ Count(f, "write_success") = 0
                    /\ f.exc.text.kind = "DocuDevs process_document failed"
                    /\ f.exc.text.status_code = f.calls[k].returned.status_code
                    /\ "payload" \in DOMAIN f.exc.text
              /\ Accepted(f, k) => Count(f, "wait_until_ready") = 1

\* the part of C5 about the persisted message, for the invocations that
\* returned
C5_RejectedMessage ==
    \A i \in Invocations :
        LET f == inv[i]
        IN  \A k \in DOMAIN f.calls :
              (Rejected(f, k) /\ HasReturned(f)) =>
                  /\ f.exc.text.kind = "DocuDevs process_document failed"
                  /\ f.exc.text.status_code = f.calls[k].returned.status_code

(***************************************************************************)
(* Claims about ConfigurationStore, checked under Spec                     *)
(***************************************************************************)
\* the folder the call that returned last was made for
CalledFolder == PosixPath(ret.folder)

\* a config.json at folder F that parses to an object with params
ValidConsolidated(F) ==
    /\ HasObject(objects, Join(F, "config.json"))
    /\ objects[Join(F, "config.json")].data.enc = "json"
    /\ objects[Join(F, "config.json")].data.v.kind = "doc"
    /\ objects[Join(F, "config.json")].data.v.params \notin {Absent, JNull}

\* the field of a consolidated document, None when it has none
Field(doc, key) == IF doc[key] = Absent THEN JNull ELSE doc[key]

\* what C6 says build(F) returns
ConsolidatedFields(F) ==
    LET obj == objects[Join(F, "config.json")]
        doc == obj.data.v
    IN  /\ ret.status = "ok"
        /\ ret.config.params = doc.params
        /\ ret.config.schema = Field(doc, "schema")
        /\ ret.config.metadata = Field(doc, "metadata")
        /\ ret.config.etags = [f \in {"config.json"} |-> obj.etag]

\* C6 as stated: in every reachable state of the store, build(F) at a folder
\* F with a valid config.json returns the fields of that config.json, its
\* etags map holding the one entry config.json -> storage tag.
C6_ConsolidatedWins ==
    (ret.op = "build" /\ ValidConsolidated(CalledFolder)) =>
        ConsolidatedFields(CalledFolder)

\* C6 amended: the same of a build(F) that found no cache entry for F.
C6_ConsolidatedWinsUncached ==
    (ret.op = "build" /\ ~ret.hit /\ ValidConsolidated(CalledFolder)) =>
        ConsolidatedFields(CalledFolder)

\* C6's case: an uncached build at a folder holding config.json, params.json
\* and schema.json
C6_Witness ==
    /\ ret.op = "build"
    /\ ~ret.hit
    /\ ValidConsolidated(CalledFolder)
    /\ HasObject(objects, Join(CalledFolder, "params.json"))
    /\ HasObject(objects, Join(CalledFolder, "schema.json"))
    /\ ret.config.etags = [f \in {"config.json"} |->
                              objects[Join(CalledFolder, "config.json")].etag]

\* a folder without config.json and with a params.json that parses
ThreeFileFolder(F) ==
    /\ ~HasObject(objects, Join(F, "config.json"))
    /\ HasObject(objects, Join(F, "params.json"))
    /\ objects[Join(F, "params.json")].data.enc = "json"

\* the parsed file of F, None when F has none
Parsed(F, file_name) ==
    IF HasObject(objects, Join(F, file_name))
    THEN objects[Join(F, file_name)].data.v ELSE JNull

\* what C7 says build(F) returns
ThreeFileFields(F) ==
    LET present == {f \in ConfigFiles : HasObject(objects, Join(F, f))}
    IN  /\ ret.status = "ok"
        /\ ret.config.params = Parsed(F, "params.json")
        /\ ret.config.schema = Parsed(F, "schema.json")
        /\ ret.config.metadata = Parsed(F, "metadata.json")
        /\ ret.config.source_folder = F
        /\ ret.config.etags = [f \in present |-> objects[Join(F, f)].etag]

\* C7 as stated: build(F) at a folder F without config.json and with
\* params.json returns the parsed params.json, the parsed schema.json and
\* metadata.json where they exist and None where they do not, source_folder
\* F, and etags for exactly the files present.
C7_ThreeFiles ==
    (ret.op = "build" /\ ThreeFileFolder(CalledFolder)) =>
        ThreeFileFields(CalledFolder)

\* C7 amended: the same of a build(F) that found no cache entry for F.
C7_ThreeFilesUncached ==
    (ret.op = "build" /\ ~ret.hit /\ ThreeFileFolder(CalledFolder)) =>
        ThreeFileFields(CalledFolder)

\* C7's case: an uncached build at a folder with params.json and
\* schema.json, without metadata.json and config.json
C7_Witness ==
    /\ ret.op = "build"
    /\ ~ret.hit
    /\ ThreeFileFolder(CalledFolder)
    /\ DOMAIN ret.config.etags = {"params.json", "schema.json"}
    /\ ret.config.metadata = JNull

\* a folder with neither config.json nor params.json
EmptyFolder(F) ==
    /\ ~HasObject(objects, Join(F, "config.json"))
    /\ ~HasObject(objects, Join(F, "params.json"))

\* C8 as stated: build(F) fails with NotFound whenever neither config.json
\* nor params.json exists at F, whatever ancestors and the default folder
\* hold, also after an earlier build(F) whose files were removed since.
C8_NotFound ==
    (ret.op = "build" /\ EmptyFolder(CalledFolder)) =>
        ret.status = "FileNotFoundError"

\* C8 amended: the same of a build(F) that found no cache entry for F; it
\* makes one attempt and caches nothing for F.
C8_NotFoundUncached ==
    (ret.op = "build" /\ ~ret.hit /\ EmptyFolder(CalledFolder)) =>
        /\ ret.status = "FileNotFoundError"
        /\ ret.attempts = 1
        /\ Str(CalledFolder) \notin DOMAIN cache

\* C8's case: build fails at a folder whose parent and the default folder
\* both hold a configuration
C8_Witness ==
    /\ ret.op = "build"
    /\ ret.status = "FileNotFoundError"
    /\ Len(CalledFolder) = 2
    /\ ~EmptyFolder(Parent(CalledFolder))
    /\ ~EmptyFolder(DefaultFolder)

\* the candidates of resolve(F) as the interface describes them: F, its
\* ancestors up to the root, then the default folder
Ancestry(F) == [k \in 1..(Len(F) + 1) |-> SubSeq(F, 1, Len(F) + 1 - k)]
Candidates(F) == Ancestry(F) \o <<DefaultFolder>>

\* the outcome of build at each candidate of F in the state resolve is
\* called in
BuildAt(F) == [k \in DOMAIN Candidates(F) |-> Build(objects, cache, Candidates(F)[k])]

\* C9 as stated: resolve(folder) returns the configuration of the first
\* candidate at which build succeeds, source_folder being that candidate,
\* and fails with NotFound when build succeeds at none.
C9_FirstSuccessStep ==
    (ret = NoRet /\ ret'.op = "resolve") =>
        \A built \in {BuildAt(PosixPath(ret'.folder))} :
            /\ (\A k \in DOMAIN built : built[k].status # "ok") =>
                  ret'.status = "FileNotFoundError"
            /\ \A k \in DOMAIN built :
                  (built[k].status = "ok"
                      /\ \A m \in 1..(k - 1) : built[m].status # "ok") =>
                        /\ ret'.status = "ok"
                        /\ ret'.config = built[k].config
                        /\ ret'.config.source_folder =
                              Candidates(PosixPath(ret'.folder))[k]

C9_FirstSuccess == [][C9_FirstSuccessStep]_vars

\* C9 amended: resolve(folder) returns what build returns at the first
\* candidate where build does not fail with NotFound: its configuration,
\* source_folder being that candidate, or its error; it fails with NotFound
\* when build fails with NotFound at every candidate.
C9_FirstFoundStep ==
    (ret = NoRet /\ ret'.op = "resolve") =>
        \A built \in {BuildAt(PosixPath(ret'.folder))} :
            /\ (\A k \in DOMAIN built : built[k].status = "FileNotFoundError") =>
                  ret'.status = "FileNotFoundError"
            /\ \A k \in DOMAIN built :
                  (built[k].status # "FileNotFoundError"
                      /\ \A m \in 1..(k - 1) : built[m].status = "FileNotFoundError") =>
                        /\ ret'.status = built[k].status
                        /\ ret'.config = built[k].config
                        /\ ret'.status = "ok" =>
                              ret'.config.source_folder =
                                  Candidates(PosixPath(ret'.folder))[k]

C9_FirstFound == [][C9_FirstFoundStep]_vars

\* C9's case: resolve of a folder two levels deep returned the default
\* folder's configuration
C9_Witness ==
    /\ ret.op = "resolve"
    /\ ret.status = "ok"
    /\ Len(CalledFolder) = 2
    /\ ret.config.source_folder = DefaultFolder
    /\ ret.attempts = Len(CalledFolder) + 2

\* C10: resolve of a folder of depth n makes at most n + 2 build attempts:
\* the ascent yields the folder and each ancestor once, the root once and
\* last, and the default folder always follows as the final candidate, also
\* when the ascent yielded it already.
C10_Bounded ==
    ret.op = "resolve" =>
        LET F == CalledFolder
            c == CandidateFolders(F)
        IN  /\ ret.attempts <= Len(F) + 2
            /\ ret.attempts >= 1
            /\ ret.status = "FileNotFoundError" => ret.attempts = Len(F) + 2
            /\ Len(c) = Len(F) + 2
            /\ c[Len(c)] = DefaultFolder
            /\ c[Len(c) - 1] = <<>>
            /\ \A k \in 1..(Len(F) + 1) : c[k] = SubSeq(F, 1, Len(F) + 1 - k)
            /\ \A j, k \in 1..(Len(F) + 1) : j # k => c[j] # c[k]

\* C10's case: resolve below the default folder tried the default folder
\* twice and failed after n + 2 attempts
C10_Witness ==
    /\ ret.op = "resolve"
    /\ ret.status = "FileNotFoundError"
    /\ Len(CalledFolder) = 2
    /\ CalledFolder[1] = "__default__"
    /\ ret.attempts = 4

\* C11: invalidate(F) removes the cache entry under the normalized F, leaves
\* every other cache entry and every stored object as it was, and changes
\* nothing when F has no entry.
C11_InvalidateFrameStep ==
    (ret = NoRet /\ ret'.op = "invalidate") =>
        LET key == Str(PosixPath(ret'.folder))
        IN  /\ DOMAIN cache' = DOMAIN cache \ {key}
            /\ \A k \in DOMAIN cache' : cache'[k] = cache[k]
            /\ key \notin DOMAIN cache => cache' = cache
            /\ objects' = objects
            /\ containers' = containers

C11_InvalidateFrame == [][C11_InvalidateFrameStep]_vars

\* C11's case: invalidate of folder a returned, a has configuration files
\* and no entry, and the default folder's entry is still there
C11_Witness ==
    /\ ret.op = "invalidate"
    /\ CalledFolder = <<"a">>
    /\ ~EmptyFolder(CalledFolder)
    /\ DOMAIN cache = {Str(DefaultFolder)}

\* the file of folder F that was uploaded last, after the start
Changed(F, file_name) ==
    /\ HasObject(objects, Join(F, file_name))
    /\ objects[Join(F, file_name)].etag = nextTag - 1
    /\ objects[Join(F, file_name)].etag >= FirstTag

\* build(F) can succeed: F has a params.json or a valid config.json
Configured(F) == HasObject(objects, Join(F, "params.json")) \/ ValidConsolidated(F)

\* the returned configuration has the content of the file
Reflects(F, file_name) ==
    /\ ret.status = "ok"
    /\ file_name = "config.json" => ConsolidatedFields(F)
    /\ file_name = "params.json" => ret.config.params = Parsed(F, file_name)
    /\ file_name = "schema.json" => ret.config.schema = Parsed(F, file_name)
    /\ file_name = "metadata.json" => ret.config.metadata = Parsed(F, file_name)

\* C12 as stated: a build(F) that reads storage after a configuration file
\* under F changed returns the new content of that file, whatever happened
\* to the folder before, a config.json at F included.
C12_ReflectsChange ==
    (ret.op = "build" /\ ~ret.hit /\ Configured(CalledFolder)) =>
        \A file_name \in ConfigFiles \cup {"config.json"} :
            (Changed(CalledFolder, file_name)
                /\ (file_name = "config.json" => ValidConsolidated(CalledFolder))) =>
                    Reflects(CalledFolder, file_name)

\* C12 amended: the same of a change to config.json, and of a change to one
\* of the three files under a folder that holds no config.json.
C12_ReflectsChangeUnconsolidated ==
    (ret.op = "build" /\ ~ret.hit /\ Configured(CalledFolder)) =>
        \A file_name \in ConfigFiles \cup {"config.json"} :
            (Changed(CalledFolder, file_name)
                /\ (file_name = "config.json" => ValidConsolidated(CalledFolder))
                /\ (file_name # "config.json" =>
                      ~HasObject(objects, Join(CalledFolder, "config.json")))) =>
                    Reflects(CalledFolder, file_name)

\* C12's case: a build that read storage returned the schema.json uploaded
\* since the start to a folder that had a params.json
C12_Witness ==
    /\ ret.op = "build"
    /\ ~ret.hit
    /\ Changed(CalledFolder, "schema.json")
    /\ HasObject(objects, Join(CalledFolder, "params.json"))
    /\ ret.config.schema = Parsed(CalledFolder, "schema.json")
    /\ DOMAIN ret.config.etags = {"params.json", "schema.json"}

(***************************************************************************)
(* Claims about handle_config_update, checked under SpecEvents             *)
(***************************************************************************)
\* handle_config_update returned after it rebuilt and wrote for folder F
Rebuilt(F) ==
    /\ ret.op = "handle_config_update"
    /\ ret.status = "rebuilt"
    /\ ret.folder = F
    /\ HasObject(objects, Join(F, "params.json"))

\* the stored F/config.json and the cache entry of F hold the content of
\* the file of F, None when F has no such file
Consolidates(F, field, file_name) ==
    /\ HasObject(objects, Join(F, "config.json"))
    /\ objects[Join(F, "config.json")].data.enc = "json"
    /\ objects[Join(F, "config.json")].data.v.kind = "doc"
    /\ objects[Join(F, "config.json")].data.v[field] = Parsed(F, file_name)
    /\ Str(F) \in DOMAIN cache
    /\ cache[Str(F)][field] = Parsed(F, file_name)

\* C13: when handle_config_update has handled a change event in folder F
\* that has a params.json, the stored F/config.json and the cache entry of F
\* hold the params, schema and metadata stored in the three files, after
\* every sequence of earlier events on F.
C13_Rebuilt ==
    \A F \in EventFolders :
        Rebuilt(F) =>
            /\ Consolidates(F, "params", "params.json")
            /\ Consolidates(F, "schema", "schema.json")
            /\ Consolidates(F, "metadata", "metadata.json")

\* the part of C13 about params, for the folders below the root
C13_RebuiltParams ==
    \A F \in EventFolders \ {<<>>} :
        Rebuilt(F) => Consolidates(F, "params", "params.json")

\* what of C13 holds of the code: the first consolidation of a folder that
\* holds no config.json
C13_FirstRebuild ==
    \A F \in EventFolders \ {<<>>} :
        (Rebuilt(F) /\ "params.json" \in DOMAIN ret.config.etags) =>
            /\ Consolidates(F, "params", "params.json")
            /\ Consolidates(F, "schema", "schema.json")
            /\ Consolidates(F, "metadata", "metadata.json")

\* a step that handles the delete event of file_name in folder F
DeleteEventStep(F, file_name, fault) ==
    ConfigUpdateEvent(InputContainer, Join(F, file_name), BlobDeleted, fault)

C14_DeleteEventStep ==
    \A F \in {ret'.folder}, file_name \in ConfigFiles :
        \A fault \in EventFaults(BlobDeleted) :
            (ret'.op = "handle_config_update" /\ DeleteEventStep(F, file_name, fault)) =>
                /\ cache' = Invalidate(cache, F)
                /\ Str(F) \notin DOMAIN cache'
                /\ \/ objects' = objects
                   \/ objects' = Restrict(objects, DOMAIN objects \ {Join(F, "config.json")})
                /\ ~fault[1] => ~HasObject(objects', Join(F, "config.json"))
                /\ nextTag' = nextTag
                /\ containers' = containers
                /\ ret'.status = "deleted"
                /\ ret'.attempts = 0
                /\ ret'.config = NoConfig

\* C14: handling a delete event of params.json, schema.json or
\* metadata.json in folder F removes the cache entry of F, deletes at most
\* F/config.json, builds nothing and writes nothing, and completes without
\* error, also when the delete of config.json fails.
C14_DeleteEvent == [][C14_DeleteEventStep]_vars

\* a delete event was handled to its end although F/config.json could not
\* be deleted
C14_Witness ==
    /\ ret.op = "handle_config_update"
    /\ ret.status = "deleted"
    /\ HasObject(objects, Join(ret.folder, "config.json"))

(***************************************************************************)
(* Claims about write_consolidated_config                                  *)
(***************************************************************************)
\* write_consolidated_config returned after its put succeeded
Written == ret.op = "write" /\ ret.status = "ok"

\* the blob write_consolidated_config(config) stores
ConsolidatedBlob(config, tag) ==
    StorageObject(Dumps(JDoc(config.params, config.schema, config.metadata,
                             Str(config.source_folder))),
                  "application/json", tag)

\* C15: write_consolidated_config(config) writes the JSON document
\* {params, schema, metadata, source: source_folder} with content type
\* application/json to the key <source_folder>/config.json, which is the key
\* config.json, the one build reads, when source_folder is the root.
C15_WritesFolderKey ==
    Written =>
        /\ HasObject(objects, Join(ret.config.source_folder, "config.json"))
        /\ objects[Join(ret.config.source_folder, "config.json")]
              = ConsolidatedBlob(ret.config, nextTag - 1)
\* C16: round trip: for every folder F, the root included, and every
\* configuration c built at F, write_consolidated_config(c) followed by a
\* build(F) that reads storage (after invalidate(F)) yields the params,
\* schema and metadata of c.
C16_RoundTrip ==
    Written =>
        \A built \in {Build(objects, Invalidate(cache, ret.config.source_folder),
                            ret.config.source_folder)} :
            /\ built.status = "ok"
            /\ built.config.params = ret.config.params
            /\ built.config.schema = ret.config.schema
            /\ built.config.metadata = ret.config.metadata
\* a step in which write_consolidated_config stores the configuration the
\* last build or resolve returned
WriteStep == ret.op \in {"build", "resolve"} /\ ret'.op = "write"

\* the version tag the claim names for configuration c
PreferredTag(c) ==
    IF "config.json" \in DOMAIN c.etags THEN c.etags["config.json"]
    ELSE IF "params.json" \in DOMAIN c.etags THEN c.etags["params.json"]
    ELSE EmptyTag

\* the stored config.json object of c carries version tag tag
TargetHasTag(c, tag) ==
    /\ HasObject(objects, ConsolidatedTarget(c))
    /\ objects[ConsolidatedTarget(c)].etag = tag

C17_PreconditionStep ==
    (WriteStep /\ ret'.status = "ok") =>
        \A tag \in {PreferredTag(ret.config)} :
            /\ (tag = EmptyTag \/ TargetHasTag(ret.config, tag)) => ret'.attempts = 1
            /\ (tag # EmptyTag /\ ~TargetHasTag(ret.config, tag)) => ret'.attempts = 2

\* C17: the version tag write_consolidated_config passes as precondition of
\* the write of config.json is the configuration's config.json tag when it
\* has one, otherwise its params.json tag, otherwise empty; the backend
\* honours a non-empty tag as an if-match precondition on the config.json
\* object: the first upload succeeds exactly when the tag is empty or is
\* the object's tag.
C17_Precondition == [][C17_PreconditionStep]_vars

\* a configuration read from config.json was written back under its tag,
\* and the conditional upload went through
C17_Witness ==
    /\ Written
    /\ "config.json" \in DOMAIN ret.config.etags
    /\ ret.attempts = 1
\* the write of c is conditional on a tag the stored config.json lacks
Conflict(c) ==
    /\ InputContainer \in containers
    /\ PreferredTag(c) # EmptyTag
    /\ ~TargetHasTag(c, PreferredTag(c))

C18_RecoveredStep ==
    WriteStep =>
        \A c \in {ret.config} :
            /\ ret'.status \notin {"ResourceModifiedError", "ResourceNotFoundError"}
            /\ ret'.attempts \in 1..2
            /\ ret'.status = "ok" =>
                  /\ InputContainer \in containers'
                  /\ HasObject(objects', ConsolidatedTarget(c))
                  /\ objects'[ConsolidatedTarget(c)] = ConsolidatedBlob(c, nextTag)
                  /\ Conflict(c) => ret'.attempts = 2
                  /\ InputContainer \notin containers => ret'.attempts = 2
            /\ ret'.status # "ok" => (objects' = objects /\ cache' = cache)

\* C18: a version conflict on the conditional write of config.json is never
\* surfaced to the caller of write_consolidated_config: the write is retried
\* once without precondition and the last writer wins; a missing container
\* is created and the write retried once; no put makes more than two
\* upload attempts.
C18_Recovered == [][C18_RecoveredStep]_vars

\* a write that found its container deleted went through on its second
\* upload: the recreated container holds the written document and no other
\* blob, though params.json was never deleted by a user
C18_Witness ==
    /\ Written
    /\ ret.attempts = 2
    /\ DOMAIN objects = {ConsolidatedTarget(ret.config)}
    /\ nextTag = ret.config.etags["params.json"] + 2

(***************************************************************************)
(* Claims about the cache                                                  *)
(***************************************************************************)
\* a step in which a call of op returns
CallStep(op) == ret' # ret /\ ret'.op = op

\* the cache entry under key k differs before and after the step
EntryChanged(k) ==
    \/ (k \in DOMAIN cache) # (k \in DOMAIN cache')
    \/ k \in DOMAIN cache /\ k \in DOMAIN cache' /\ cache[k] # cache'[k]

C19_CacheStep ==
    /\ \A k \in DOMAIN cache \cup DOMAIN cache' :
          EntryChanged(k) =>
              \/ /\ CallStep("build") \/ CallStep("resolve")
                 /\ ret'.status = "ok"
                 /\ k \in DOMAIN cache'
                 /\ cache'[k] = ret'.config
              \/ /\ CallStep("write")
                 /\ ret'.status = "ok"
                 /\ k = Str(ret.config.source_folder)
                 /\ k \in DOMAIN cache'
                 /\ cache'[k] = ret.config
              \/ /\ CallStep("invalidate")
                 /\ k = Str(NormalizeFolder(ret'.folder))
                 /\ k \notin DOMAIN cache'
    /\ \A op \in {"build", "resolve", "write"} :
          (CallStep(op) /\ ret'.status # "ok") => cache' = cache
    /\ (CallStep("write") /\ ret'.status = "ok") =>
          (Str(ret.config.source_folder) \in DOMAIN cache'
             /\ cache'[Str(ret.config.source_folder)] = ret.config)

\* C19: the cache entry of a folder changes only through a successful
\* build (set), a successful write_consolidated_config (replaced by the
\* written configuration) or invalidate (removed); a build that fails and a
\* write_consolidated_config whose put fails leave the whole cache
\* unchanged.
C19_Cache == [][C19_CacheStep]_vars

\* a build failed while the cache held entries
C19_Witness ==
    /\ ret.op = "build"
    /\ ret.status \in {"FileNotFoundError", "ValueError"}
    /\ cache # EmptyCache
\* C20: every FolderConfiguration that build or resolve returned, and every
\* one the cache holds, has params that are not null, whatever config.json
\* and params.json contain.
C20_ParamsPresent ==
    /\ \A k \in DOMAIN cache : cache[k].params # JNull
    /\ (ret.op \in {"build", "resolve"} /\ ret.status = "ok") => ret.config.params # JNull
    /\ \A i \in Invocations :
          inv[i].config # NoConfig => inv[i].config.params # JNull

(***************************************************************************)
(* Claims about the parameters of the wait, checked under SpecParams       *)
(***************************************************************************)
\* the keys and values of the params.json the invocation resolved
FieldsOf(i) == ObjFields(inv[i].config.params)

\* the wait_until_ready calls of invocation i
WaitCalls(i) ==
    {k \in 1..Len(inv[i].calls) : inv[i].calls[k].op = "wait_until_ready"}

\* the success artifacts invocation i wrote
SuccessWrites(i) ==
    {k \in 1..Len(inv[i].writes) : inv[i].writes[k].name.extension # "error.json"}

\* process_document accepted the command of invocation i
CommandAccepted(i) ==
    \E k \in 1..Len(inv[i].calls) :
        inv[i].calls[k].op = "process_document" /\ inv[i].calls[k].result = "ok"

\* the format each value of resultFormat stands for: trimmed and in lower
\* case one of json, csv, excel, and none otherwise
FormatOf(value) ==
    IF value \in {Csv, CsvPadded} THEN "csv"
    ELSE IF value = Excel THEN "excel"
    ELSE IF value = Json THEN "json"
    ELSE "none"

WantedFormat(i) ==
    IF "resultFormat" \in DOMAIN FieldsOf(i)
    THEN FormatOf(FieldsOf(i)["resultFormat"]) ELSE "none"

\* extension and content type of the artifact of a format
WantedDescriptor(format) ==
    IF format = "csv" THEN <<"csv", "text/csv">>
    ELSE IF format = "excel"
    THEN <<"xlsx", "application/vnd.openxmlformats-officedocument.spreadsheetml.sheet">>
    ELSE <<"json", "application/json">>

\* C21: the result format passed to wait_until_ready is the trimmed,
\* lower-cased resultFormat when that is json, csv or excel, and is omitted
\* otherwise; the success artifact has extension and content type csv and
\* text/csv for csv, xlsx and the spreadsheet type for excel, json and
\* application/json otherwise; an unsupported resultFormat does not keep the
\* invocation from its wait call, and makes it fail only when the write of
\* the artifact fails.
C21_ResultFormat ==
    \A i \in Invocations :
        /\ \A k \in WaitCalls(i) :
              IF WantedFormat(i) = "none"
              THEN "result_format" \notin DOMAIN inv[i].calls[k].arg
              ELSE /\ "result_format" \in DOMAIN inv[i].calls[k].arg
                   /\ inv[i].calls[k].arg["result_format"] = JString(WantedFormat(i))
        /\ \A k \in SuccessWrites(i) :
              /\ inv[i].writes[k].name.extension = WantedDescriptor(WantedFormat(i))[1]
              /\ inv[i].writes[k].content_type = WantedDescriptor(WantedFormat(i))[2]
        /\ (DOMAIN FieldsOf(i) = {"resultFormat"} /\ CommandAccepted(i)) =>
              /\ WaitCalls(i) # {}
              /\ inv[i].outcome # "SUCCESS" /\ inv[i].pc = "done"
                    => inv[i].exc.text = [kind |-> "put_object"]

\* an invocation whose resultFormat is " CSV\n" wrote its artifact as csv
C21_Witness ==
    \E i \in Invocations :
        /\ "resultFormat" \in DOMAIN FieldsOf(i)
        /\ FieldsOf(i)["resultFormat"] = CsvPadded
        /\ inv[i].outcome = "SUCCESS"
        /\ \E k \in SuccessWrites(i) : inv[i].writes[k].name.extension = "csv"
\* C22: a timeout or poll interval that is no positive number, or that
\* cannot be coerced for any reason, is left out of the wait call and never
\* makes process_blob fail: once process_document accepted the command, the
\* invocation calls wait_until_ready, whatever the values of the timeout and
\* poll interval parameters.
C22_NeverFails ==
    \A i \in Invocations : CommandAccepted(i) => WaitCalls(i) # {}

(***************************************************************************)
(* Claims about handle_document_ingest, checked under SpecIngest           *)
(***************************************************************************)
\* the events that are to reach process_blob, and the blob key of each
DocumentKey ==
    (BlobSubject(InputContainer, <<"a", "doc.pdf">>) :> <<"a", "doc.pdf">>)
    @@ (BlobSubject(InputContainer, <<"my%20doc.pdf">>) :> <<"my doc.pdf">>)
    @@ (BlobSubject(InputContainer, <<"blobs", "doc.pdf">>) :> <<"blobs", "doc.pdf">>)
    @@ (BlobSubject(InputContainer, <<"a", "DATA.JSON">>) :> <<"a", "DATA.JSON">>)

C23_DispatchStep ==
    \A i \in {j \in Invocations : inv[j].pc = "idle"} :
    \A subject \in Subjects, fetch_fault \in BOOLEAN :
        IngestEvent(i, subject, fetch_fault) =>
            IF subject \in DOMAIN DocumentKey
            THEN /\ inv'[i].pc # "idle"
                 /\ inv'[i].blob_name = DocumentKey[subject]
                 /\ inv'[i].calls[1].op = "get_object"
                 /\ \A j \in Invocations \ {i} : inv'[j] = inv[j]
            ELSE inv' = inv /\ out' = out /\ cache' = cache

\* C23: handle_document_ingest never invokes process_blob for an event of
\* another container than the input container, or whose file name is
\* params.json, schema.json or metadata.json or ends in .json; every other
\* well-formed event of the input container invokes process_blob exactly
\* once, with the blob key of the event.
C23_Dispatch == [][C23_DispatchStep]_vars

\* the event of the blob "my doc.pdf" reached process_blob under that key,
\* after an event of a configuration file had been skipped
C23_Witness ==
    /\ ret.op = "handle_document_ingest"
    /\ ret.status = "skipped"
    /\ \E i \in Invocations : inv[i].blob_name = <<"my doc.pdf">> /\ inv[i].pc = "done"

(***************************************************************************)
(* Claims about resolve and the cache keys, checked under Spec             *)
(***************************************************************************)
\* candidate k of the resolve that returns in this step is the first where
\* build fails otherwise than with NotFound, it fails there for a
\* config.json without params, and build succeeds at a later candidate
InvalidBeforeValid(built, k) ==
    /\ built[k].status = "ValueError"
    /\ \A m \in 1..(k - 1) : built[m].status = "FileNotFoundError"
    /\ \E m \in (k + 1)..Len(built) : built[m].status = "ok"

\* C24 as stated: when build fails at a candidate because its config.json
\* lacks params, resolve goes on to the remaining candidates and returns the
\* first one whose build succeeds, as it does after NotFound.
C24_ContinuesStep ==
    (ret = NoRet /\ ret'.op = "resolve") =>
        \A built \in {BuildAt(PosixPath(ret'.folder))} :
            \A k \in DOMAIN built :
                InvalidBeforeValid(built, k) =>
                    /\ ret'.status = "ok"
                    /\ \E m \in (k + 1)..Len(built) : ret'.config = built[m].config

C24_Continues == [][C24_ContinuesStep]_vars

\* C24 amended: when build fails at a candidate because its config.json
\* lacks params, resolve fails with that error at once: it builds at no
\* later candidate, caches nothing and returns no configuration, also when
\* build would succeed at a later candidate.
C24_StopsStep ==
    (ret = NoRet /\ ret'.op = "resolve") =>
        \A built \in {BuildAt(PosixPath(ret'.folder))} :
            \A k \in DOMAIN built :
                InvalidBeforeValid(built, k) =>
                    /\ ret'.status = "ValueError"
                    /\ ret'.config = NoConfig
                    /\ ret'.attempts = k
                    /\ cache' = cache

C24_Stops == [][C24_StopsStep]_vars

\* resolve(a) failed on a's config.json without params while the default
\* folder holds a params.json
C24_Witness ==
    /\ ret.op = "resolve"
    /\ ret.status = "ValueError"
    /\ CalledFolder = <<"a">>
    /\ HasObject(objects, Join(DefaultFolder, "params.json"))
    /\ Str(DefaultFolder) \notin DOMAIN cache

(***************************************************************************)
(* Claims about the processing command, checked under SpecParams           *)
(***************************************************************************)
\* the process_document calls of invocation i
ProcessCalls(i) ==
    {k \in 1..Len(inv[i].calls) : inv[i].calls[k].op = "process_document"}

\* params hold a value other than null under key
HasOwn(i, key) == key \in DOMAIN FieldsOf(i) /\ FieldsOf(i)[key] # JNull

\* the schema of the configuration as the command carries it: the JSON text
\* of an object or list, the string form of any other value
SchemaString(schema) ==
    IF schema.kind \in {"object", "list"} THEN [kind |-> "string", json |-> schema]
    ELSE [kind |-> "string", str |-> schema]

C25_CommandOf(i, command) ==
    /\ command.params = inv[i].config.params
    /\ command.mimeType =
          IF "mimeType" \in DOMAIN FieldsOf(i) THEN FieldsOf(i)["mimeType"]
          ELSE JString(inv[i].mime_type)
    /\ command.schema =
          IF HasOwn(i, "schema") THEN FieldsOf(i)["schema"]
          ELSE IF inv[i].config.schema # JNull THEN SchemaString(inv[i].config.schema)
          ELSE JNull
    /\ command.metadata =
          IF "metadata" \in DOMAIN FieldsOf(i) THEN FieldsOf(i)["metadata"]
          ELSE inv[i].config.metadata

\* C25: the command sent to process_document holds every resolved parameter
\* unchanged, mimeType set to the resolved MIME type only when the
\* parameters have no mimeType, the configuration's schema (JSON text of an
\* object or list, string form otherwise) only when the command's own schema
\* is unset, the configuration's metadata only when the parameters have no
\* metadata key; the cached FolderConfiguration is the one that was resolved.
C25_Command ==
    \A i \in Invocations :
        \A k \in ProcessCalls(i) :
            /\ C25_CommandOf(i, inv[i].calls[k].arg)
            /\ Str(inv[i].config.source_folder) \in DOMAIN cache
            /\ cache[Str(inv[i].config.source_folder)] = inv[i].config
            /\ inv[i].config.params = objects[<<"a", "params.json">>].data.v

\* a command kept its own schema although the folder has a schema.json and
\* a metadata.json, and took the metadata of the configuration
C25_Witness ==
    \E i \in Invocations :
        /\ ProcessCalls(i) # {}
        /\ HasOwn(i, "schema")
        /\ inv[i].config.schema # JNull
        /\ inv[i].config.metadata # JNull
        /\ \E k \in ProcessCalls(i) :
              /\ inv[i].calls[k].arg.schema = JString("own")
              /\ inv[i].calls[k].arg.metadata = inv[i].config.metadata

\* the last call was a resolve that fell back to another folder
FellBack ==
    /\ ret.op = "resolve"
    /\ ret.status = "ok"
    /\ ret.config.source_folder # NormalizeFolder(ret.folder)

\* C26: every cache entry is stored under the string form of its own
\* source_folder, and a resolve(F) that fell back to an ancestor or to the
\* default folder left no cache entry under F.
C26_CacheKeys ==
    /\ \A k \in DOMAIN cache : Str(cache[k].source_folder) = k
    /\ FellBack => Str(NormalizeFolder(ret.folder)) \notin DOMAIN cache

\* a resolve of a folder below "a" fell back, and what it returned is cached
\* under the folder that matched
C26_Witness ==
    /\ FellBack
    /\ Len(NormalizeFolder(ret.folder)) > 1
    /\ Str(ret.config.source_folder) \in DOMAIN cache
    /\ cache[Str(ret.config.source_folder)] = ret.config

(***************************************************************************)
(* Claims about lookups that found nothing, checked under SpecAgain        *)
(***************************************************************************)
\* the folder of the call whose result the caller holds
Asked == NormalizeFolder(ret.folder)

\* the held result is of a build or resolve that found nothing at the
\* folder itself
FoundNothing ==
    /\ ret.op \in {"build", "resolve"}
    /\ \/ ret.status = "FileNotFoundError"
       \/ ret.status = "ok" /\ ret.config.source_folder # Asked

IsJson(name) == name \in DOMAIN objects => objects[name].data.enc = "json"

\* folder holds a configuration: a config.json with params, or no
\* config.json and a params.json
HoldsConfiguration(folder) ==
    LET consolidated == Join(folder, "config.json")
    IN  IF consolidated \in DOMAIN objects
        THEN /\ IsJson(consolidated)
             /\ HasGet(objects[consolidated].data.v)
             /\ Get(objects[consolidated].data.v, "params") # JNull
        ELSE /\ Join(folder, "params.json") \in DOMAIN objects
             /\ \A file_name \in ConfigFiles : IsJson(Join(folder, file_name))

\* config was built from the files folder holds now
BuiltFromFilesAt(config, folder) ==
    /\ config.source_folder = folder
    /\ \A f \in DOMAIN config.etags :
          /\ Join(folder, f) \in DOMAIN objects
          /\ config.etags[f] = objects[Join(folder, f)].etag

C27_AgainStep ==
    (/\ FoundNothing
     /\ HoldsConfiguration(Asked)
     /\ objects' = objects
     /\ ret'.op = "resolve") =>
        /\ ret'.status = "ok"
        /\ BuiltFromFilesAt(ret'.config, Asked)

\* C27: negative lookups are not cached: when build(F) or resolve(F) found
\* nothing at F itself and configuration files are added at F afterwards,
\* the next resolve(F), with no invalidate in between, returns the
\* configuration of F.
C27_NotCached == [][C27_AgainStep]_vars

\* resolve returned the configuration of a folder that held no file at the
\* caller's first lookup, from a file uploaded since
C27_Witness ==
    /\ ret.op = "resolve"
    /\ ret.status = "ok"
    /\ ret.config.source_folder = Asked
    /\ \A name \in DOMAIN InitBlobs : Parent(name) # Asked
    /\ \E f \in DOMAIN ret.config.etags : ret.config.etags[f] >= FirstTag

(***************************************************************************)
(* Claims about a suspended process_blob, checked under SpecLive           *)
(***************************************************************************)
\* what a step adds to the log of invocation i
NewCalls(i) == {inv'[i].calls[k] : k \in (Len(inv[i].calls) + 1)..Len(inv'[i].calls)}

C28_SnapshotStep ==
    \A i \in {j \in Invocations : Suspended(j)} :
        /\ inv'[i].config = inv[i].config
        /\ inv'[i].mime_type = inv[i].mime_type
        /\ \A call \in NewCalls(i) :
              /\ call.op = "process_document" => C25_CommandOf(i, call.arg)
              /\ call.op = "wait_until_ready" =>
                    call.arg = ResolveWaitParameters(inv[i].config.params).kwargs

\* C28: a process_blob invocation keeps the FolderConfiguration it resolved:
\* while it is suspended at upload_document, process_document or
\* wait_until_ready, no invalidate, build or write_consolidated_config for
\* its folder changes the configuration or MIME type it holds, and the
\* command and the wait parameters it goes on to send are those of that
\* configuration.
C28_Snapshot == [][C28_SnapshotStep]_vars

\* an invocation sent its command and its wait parameters from the
\* configuration it resolved, and the cache entry of its folder now holds
\* other parameters
C28_Witness ==
    \E i \in Invocations :
        /\ ProcessCalls(i) # {}
        /\ WaitCalls(i) # {}
        /\ Str(<<"a">>) \in DOMAIN cache
        /\ cache[Str(<<"a">>)].params # inv[i].config.params
        /\ \A k \in ProcessCalls(i) : inv[i].calls[k].arg.params = inv[i].config.params
        /\ \A k \in WaitCalls(i) :
              inv[i].calls[k].arg = ResolveWaitParameters(inv[i].config.params).kwargs
        /\ ResolveWaitParameters(cache[Str(<<"a">>)].params).kwargs
              # ResolveWaitParameters(inv[i].config.params).kwargs

(***************************************************************************)
(* Claims about concurrent consolidated writes, checked under SpecTwo      *)
(***************************************************************************)
BothDone == \A w \in Instances : instances[w].pc = "done"

\* the document write_consolidated_config of instance w sends
PayloadOf(w) == Dumps(ConsolidatedPayload(instances[w].config))

\* C29: when two write_consolidated_config calls for one folder run at the
\* same time, each with the configuration its store built, neither raises;
\* once both returned, config.json holds the document of one of the two and
\* the cache entry of each store is the configuration that store wrote.
C29_BothComplete ==
    /\ \A w \in Instances : instances[w].pc = "done" => instances[w].status = "ok"
    /\ BothDone =>
          /\ Join(EventFolder, "config.json") \in DOMAIN objects
          /\ \E w \in Instances :
                objects[Join(EventFolder, "config.json")].data = PayloadOf(w)
          /\ \A w \in Instances :
                /\ Str(EventFolder) \in DOMAIN instances[w].cache
                /\ instances[w].cache[Str(EventFolder)] = instances[w].config

\* both instances wrote different documents, one of them at its second
\* upload, and config.json holds the document of the first instance
C29_Witness ==
    /\ BothDone
    /\ PayloadOf("first") # PayloadOf("second")
    /\ \E w \in Instances : instances[w].attempts > 1
    /\ objects[Join(EventFolder, "config.json")].data = PayloadOf("first")

(***************************************************************************)
(* Claims about the events of the handlers' own writes, checked under      *)
(* SpecLoop                                                                *)
(***************************************************************************)
\* the event is of a consolidated document, written or deleted
OfConsolidated(event) == Name(event.blob_name) = "config.json"

C30_DeliveryStep ==
    \A d \in events \ events' :
        IF OfConsolidated(d.event)
        THEN /\ events' = events \ {d}
             /\ objects' = objects
             /\ cache' = cache
             /\ nextTag' = nextTag
             /\ inv' = inv
             /\ out' = out
        ELSE /\ nextTag' <= nextTag + 1
             /\ Cardinality(Raised(objects, objects')) <= 1
             /\ \A r \in events' \ events : OfConsolidated(r.event)

\* C30: the event of a config.json written or deleted in the input container
\* starts no rebuild, no consolidated write and no process_blob in either
\* handler, so the handling of one configuration change event makes at most
\* one consolidated write and raises no event but that of config.json.
C30_NoLoop == [][C30_DeliveryStep]_vars

\* a consolidated write happened, and both deliveries of its event and all
\* others were handled
C30_Witness ==
    /\ events = {}
    /\ nextTag > FirstTag
    /\ \E n \in DOMAIN objects :
          /\ Name(n) = "config.json"
          /\ objects[n].etag >= FirstTag
    /\ ret.op = "handle_document_ingest"
    /\ ret.status = "skipped"

====
